---- MODULE Spec2Model ----
(***************************************************************************)
(* Model of the MBTA bus frequency mapper (src/frontend/src/App.jsx):      *)
(* the scenario engine (geometry utilities, frequency estimator, stop      *)
(* redistribution) and the scenario coordinator of the App component       *)
(* (route selection, per-route stop cache, stop fetches and their          *)
(* completion, stop-count adjustment).                                     *)
(*                                                                         *)
(* Numbers.  JavaScript numbers are modelled as exact rationals <<n, d>>   *)
(* (d > 0, lowest terms).  Coordinates are [lng, lat] pairs of rationals.  *)
(* All points of the model lie on one meridian, where the haversine        *)
(* distance is the arc R * |dLat|; latitudes are counted in steps of the   *)
(* angle whose arc is one mile (1609.34 m).                                *)
(*                                                                         *)
(* Scheduling.  The map click handlers call React state setters; the       *)
(* update they schedule is rendered, and the effects that depend on it are *)
(* run, before the next event is handled.  An action of a user event is    *)
(* therefore the handler followed by the effect run it causes.             *)
(***************************************************************************)
EXTENDS Integers, Sequences, FiniteSets, Bags, TLC

\* JavaScript null / undefined, in the shape of the value it stands in for:
\* a number or coordinate pair, an object, a route id
Null == <<>>
NullObject == [type |-> "null"]
NoRoute == "null"
NoError == "null"

----------------------------------------------------------------------------
(* Exact rational arithmetic standing for JavaScript number arithmetic.    *)

Abs(x) == IF x < 0 THEN -x ELSE x

RECURSIVE GCD(_, _)
GCD(a, b) == IF b = 0 THEN a ELSE GCD(b, a % b)

\* n / d in lowest terms with a positive denominator, g their gcd
Lowest(n, d, g) ==
    IF d < 0 THEN <<(-n) \div g, (-d) \div g>> ELSE <<n \div g, d \div g>>

Rat(n, d) == Lowest(n, d, GCD(Abs(n), Abs(d)))

Int2Rat(n) == <<n, 1>>
Zero == <<0, 1>>
\* sums over the least common denominator and products with cross-cancelling,
\* so that intermediate values stay small
AddOver(x, y, g) == Rat(x[1] * (y[2] \div g) + y[1] * (x[2] \div g), (x[2] \div g) * y[2])
RAdd(x, y) == AddOver(x, y, GCD(x[2], y[2]))
RNeg(x) == <<-x[1], x[2]>>
RSub(x, y) == RAdd(x, RNeg(y))
MulOver(x, y, g1, g2) ==
    Rat((x[1] \div g1) * (y[1] \div g2), (x[2] \div g2) * (y[2] \div g1))
RMul(x, y) == MulOver(x, y, GCD(Abs(x[1]), y[2]), GCD(Abs(y[1]), x[2]))
RDiv(x, y) == RMul(x, IF y[1] < 0 THEN <<-y[2], -y[1]>> ELSE <<y[2], y[1]>>)
LtOver(x, y, g) == x[1] * (y[2] \div g) < y[1] * (x[2] \div g)
RLt(x, y) == LtOver(x, y, GCD(x[2], y[2]))
RLe(x, y) == ~RLt(y, x)
RAbs(x) == <<Abs(x[1]), x[2]>>
RMin(x, y) == IF RLt(y, x) THEN y ELSE x
RMax(x, y) == IF RLt(x, y) THEN y ELSE x
\* Math.floor and Math.round (round half up) of a rational, as integers
Floor(x) == x[1] \div x[2]
\* Round with halves rounded down
Round_HalfDown(x) == (2 * x[1] + x[2] - 1) \div (2 * x[2])
Round(x) == (2 * x[1] + x[2]) \div (2 * x[2])

RECURSIVE RSum(_)
RSum(s) == IF s = <<>> THEN Zero ELSE RAdd(Head(s), RSum(Tail(s)))

RECURSIVE Sum(_)
Sum(s) == IF s = <<>> THEN 0 ELSE Head(s) + Sum(Tail(s))

RECURSIVE Flatten(_)
Flatten(ss) == IF ss = <<>> THEN <<>> ELSE Head(ss) \o Flatten(Tail(ss))

Min(a, b) == IF a < b THEN a ELSE b
Max(a, b) == IF a > b THEN a ELSE b

----------------------------------------------------------------------------
(* Constants of the source.                                                *)

SECONDS_PER_MINUTE == 60
MINUTES_PER_HOUR == 60
METERS_PER_MILE == Rat(160934, 100)
AVERAGE_BUS_SPEED_MPH == 12
DWELL_TIME_PER_STOP_SECONDS == 30
EFFECTIVE_STOP_DIRECTION_FACTOR == Rat(1, 2)
AVERAGE_ROUTE_SPAN_PER_BUS_MILES == Rat(18, 10)
MAX_ADJUSTED_STOPS == 400

EMPTY_GEOJSON == [type |-> "FeatureCollection", features |-> <<>>]
FeatureCollection(fs) == [type |-> "FeatureCollection", features |-> fs]

DEFAULT_STOP_SCENARIO ==
    [baseCount |-> 0, adjustedCount |-> 0, factor |-> Int2Rat(1),
     baseFrequencyMinutes |-> Null, adjustedFrequencyMinutes |-> Null]

----------------------------------------------------------------------------
(* Geometry utilities.                                                     *)

\* a point of the model's meridian, lat counted in one-mile steps
Pt(lat) == <<Zero, Int2Rat(lat)>>

\* 2 * atan2(sqrt(h), sqrt(1 - h)) * 6371000 for two points of one meridian
\* is the arc of their latitude difference: |dLat| steps of 1609.34 m
haversineDistanceMeters(a, b) ==
    IF Len(a) # 2 \/ Len(b) # 2 THEN Zero
    ELSE RMul(RAbs(RSub(b[2], a[2])), METERS_PER_MILE)

calculateLineDistanceInMeters(coordinates) ==
    IF Len(coordinates) < 2 THEN Zero
    ELSE RSum([i \in 1..(Len(coordinates) - 1) |->
                 haversineDistanceMeters(coordinates[i], coordinates[i + 1])])

\* the largest element of a non-empty sequence of rationals
RECURSIVE RMaxOf(_)
RMaxOf(s) == IF Len(s) = 1 THEN s[1] ELSE RMax(Head(s), RMaxOf(Tail(s)))

\* s without the first occurrence of x
RECURSIVE RemoveFirst(_, _)
RemoveFirst(s, x) ==
    IF s = <<>> THEN <<>>
    ELSE IF Head(s) = x THEN Tail(s) ELSE <<Head(s)>> \o RemoveFirst(Tail(s), x)

calculateRepresentativeRouteLengthInMeters(geometry) ==
    IF geometry.type = "null" THEN Zero
    ELSE IF geometry.type = "LineString"
         THEN calculateLineDistanceInMeters(geometry.coordinates)
    ELSE IF geometry.type = "MultiLineString"
         THEN LET all == [i \in 1..Len(geometry.coordinates) |->
                            calculateLineDistanceInMeters(geometry.coordinates[i])]
                  segmentLengths == SelectSeq(all, LAMBDA v : RLt(Zero, v))
              IN  IF segmentLengths = <<>> THEN Zero
                  ELSE IF Len(segmentLengths) = 1 THEN segmentLengths[1]
                  ELSE LET first == RMaxOf(segmentLengths)
                           second == RMaxOf(RemoveFirst(segmentLengths, first))
                       IN  RDiv(RAdd(first, second), Int2Rat(2))
    ELSE Zero

interpolateCoordinate(start, end, t) ==
    IF Len(start) # 2 \/ Len(end) # 2 THEN Null
    ELSE LET clampedT == RMin(RMax(t, Zero), Int2Rat(1))
         IN  <<RAdd(start[1], RMul(RSub(end[1], start[1]), clampedT)),
               RAdd(start[2], RMul(RSub(end[2], start[2]), clampedT))>>

\* the {start, end, length} records of the positive-length pieces of a line
LineSegments(line) ==
    IF Len(line) < 2 THEN <<>>
    ELSE SelectSeq([i \in 1..(Len(line) - 1) |->
                      [start |-> line[i], end |-> line[i + 1],
                       length |-> haversineDistanceMeters(line[i], line[i + 1])]],
                   LAMBDA s : RLt(Zero, s.length))

GeometryLineStrings(geometry) ==
    IF geometry.type = "null" THEN <<>>
    ELSE IF geometry.type = "LineString" THEN <<geometry.coordinates>>
    ELSE IF geometry.type = "MultiLineString" THEN geometry.coordinates
    ELSE <<>>

\* the while loop of sampleCoordinatesAlongGeometry: <<segmentIndex, accumulated>>
\* (segmentIndex counted from 1)
RECURSIVE AdvanceSegment(_, _, _, _)
AdvanceSegment(segments, segmentIndex, accumulated, targetDistance) ==
    IF segmentIndex < Len(segments)
       /\ RLt(RAdd(accumulated, segments[segmentIndex].length), targetDistance)
    THEN AdvanceSegment(segments, segmentIndex + 1,
                        RAdd(accumulated, segments[segmentIndex].length), targetDistance)
    ELSE <<segmentIndex, accumulated>>

\* the coordinate at targetDistance, the while loop having stopped at the
\* segment at[1] with accumulated = at[2] (interpolateCoordinate yields null for
\* malformed pairs only, and the segments are built from pairs)
SampleOn(segment, distanceIntoSegment) ==
    interpolateCoordinate(segment.start, segment.end,
                          IF segment.length = Zero THEN Zero
                          ELSE RDiv(distanceIntoSegment, segment.length))

SampleWhere(segments, targetDistance, at) ==
    SampleOn(segments[at[1]], RSub(targetDistance, at[2]))

\* one pass of the for loop of sampleCoordinatesAlongGeometry, for index (counted
\* from 0).  The loop keeps segmentIndex and accumulated from one index to the
\* next; the target distances grow with the index, so the while loop started
\* from the first segment stops at the same segment with the same accumulated.
SampleAt(segments, spacing, index) ==
    SampleWhere(segments, RMul(spacing, Int2Rat(index)),
                AdvanceSegment(segments, 1, Zero, RMul(spacing, Int2Rat(index))))

\* SampleSegments with the sampling loop started at index 1: one coordinate short
SampleSegments_OneShort(lineStrings, segments, totalLength, targetCount) ==
    IF segments = <<>>
    THEN IF SelectSeq(lineStrings, LAMBDA line : Len(line) > 0) = <<>> THEN <<>>
         ELSE [i \in 1..targetCount |->
                 SelectSeq(lineStrings, LAMBDA line : Len(line) > 0)[1][1]]
    ELSE IF RLe(totalLength, Zero) THEN [i \in 1..targetCount |-> segments[1].start]
    ELSE IF targetCount = 1 THEN <<segments[1].start>>
    ELSE [i \in 1..(targetCount - 1) |->
            SampleAt(segments, RDiv(totalLength, Int2Rat(targetCount - 1)), i)]

\* sampleCoordinatesAlongGeometry once lineStrings and segments are collected
SampleSegments(lineStrings, segments, totalLength, targetCount) ==
    IF segments = <<>>
    THEN IF SelectSeq(lineStrings, LAMBDA line : Len(line) > 0) = <<>> THEN <<>>
         ELSE [i \in 1..targetCount |->
                 SelectSeq(lineStrings, LAMBDA line : Len(line) > 0)[1][1]]
    ELSE IF RLe(totalLength, Zero) THEN [i \in 1..targetCount |-> segments[1].start]
    ELSE IF targetCount = 1 THEN <<segments[1].start>>
    ELSE [i \in 1..targetCount |->
            SampleAt(segments, RDiv(totalLength, Int2Rat(targetCount - 1)), i - 1)]

SegmentsOf(lineStrings) ==
    Flatten([i \in 1..Len(lineStrings) |-> LineSegments(lineStrings[i])])

TotalLength(segments) == RSum([i \in 1..Len(segments) |-> segments[i].length])

SampleLines(lineStrings, segments, targetCount) ==
    SampleSegments(lineStrings, segments, TotalLength(segments), targetCount)

sampleCoordinatesAlongGeometry(geometry, count) ==
    IF geometry.type = "null" \/ Max(0, count) <= 0 THEN <<>>
    ELSE SampleLines(GeometryLineStrings(geometry),
                     SegmentsOf(GeometryLineStrings(geometry)), Max(0, count))

----------------------------------------------------------------------------
(* Frequency estimator.                                                    *)

SpeedMetersPerMinute ==
    RDiv(RMul(Int2Rat(AVERAGE_BUS_SPEED_MPH), METERS_PER_MILE), Int2Rat(MINUTES_PER_HOUR))

TravelMinutes(length) ==
    IF RLt(Zero, length) THEN RDiv(length, SpeedMetersPerMinute) ELSE Zero

DwellMinutes(stopCount) ==
    RMul(RMax(Zero, RMul(Int2Rat(stopCount), EFFECTIVE_STOP_DIRECTION_FACTOR)),
         Rat(DWELL_TIME_PER_STOP_SECONDS, SECONDS_PER_MINUTE))

\* Math.max(1, Math.round(routeLengthMiles / AVERAGE_ROUTE_SPAN_PER_BUS_MILES) || 1)
EstimatedBusesInService(length) ==
    Max(1, Round(RDiv(RDiv(length, METERS_PER_MILE), AVERAGE_ROUTE_SPAN_PER_BUS_MILES)))

\* DwellOrNull with 0 for null
DwellOrNull_Zero(dwellMinutes) == IF RLt(Zero, dwellMinutes) THEN dwellMinutes ELSE Zero

DwellOrNull(dwellMinutes) == IF RLt(Zero, dwellMinutes) THEN dwellMinutes ELSE Null

FrequencyOrDwell(frequencyMinutes, dwellMinutes) ==
    IF RLe(frequencyMinutes, Zero) THEN DwellOrNull(dwellMinutes) ELSE frequencyMinutes

FrequencyOf(cycleMinutes, dwellMinutes, length) ==
    IF RLe(cycleMinutes, Zero) THEN DwellOrNull(dwellMinutes)
    ELSE FrequencyOrDwell(RDiv(cycleMinutes, Int2Rat(EstimatedBusesInService(length))),
                          dwellMinutes)

\* routeLengthMeters is a rational; the result is a rational or Null
calculateEstimatedFrequencyMinutes(routeLengthMeters, stopCount) ==
    FrequencyOf(RAdd(TravelMinutes(routeLengthMeters), DwellMinutes(stopCount)),
                DwellMinutes(stopCount), routeLengthMeters)

----------------------------------------------------------------------------
(* Stop features and stop redistribution.                                  *)

\* a stop as normalizeStopFeature builds it from an upstream record
normalizeStopFeature(stopId, name, coordinate) ==
    [type |-> "Feature", id |-> stopId,
     geometry |-> [type |-> "Point", coordinates |-> coordinate],
     properties |-> [name |-> name, isSynthetic |-> FALSE]]

IsPointFeature(feature) == feature.geometry.type = "Point"

\* selectEvenlySpacedStops with features.slice(0, targetCount - 1) for
\* features.slice() where the target reaches the number of features
selectEvenlySpacedStops_ShortSlice(features, targetCount) ==
    IF features = <<>> \/ targetCount <= 0 THEN <<>>
    ELSE IF targetCount >= Len(features) THEN SubSeq(features, 1, Len(features) - 1)
    ELSE IF targetCount = 1 THEN <<features[1]>>
    ELSE [k \in 1..targetCount |->
            features[Min(Round(RMul(Int2Rat(k - 1),
                                    Rat(Len(features) - 1, targetCount - 1))),
                         Len(features) - 1) + 1]]

\* selectEvenlySpacedStops with "return features" for "return [features[0]]"
selectEvenlySpacedStops_AllForOne(features, targetCount) ==
    IF features = <<>> \/ targetCount <= 0 THEN <<>>
    ELSE IF targetCount >= Len(features) THEN features
    ELSE IF targetCount = 1 THEN features
    ELSE [k \in 1..targetCount |->
            features[Min(Round(RMul(Int2Rat(k - 1),
                                    Rat(Len(features) - 1, targetCount - 1))),
                         Len(features) - 1) + 1]]

\* selectEvenlySpacedStops with the interval features.length / targetCount
selectEvenlySpacedStops_WholeInterval(features, targetCount) ==
    IF features = <<>> \/ targetCount <= 0 THEN <<>>
    ELSE IF targetCount >= Len(features) THEN features
    ELSE IF targetCount = 1 THEN <<features[1]>>
    ELSE [k \in 1..targetCount |->
            features[Min(Round(RMul(Int2Rat(k - 1), Rat(Len(features), targetCount))),
                         Len(features) - 1) + 1]]

selectEvenlySpacedStops(features, targetCount) ==
    IF features = <<>> \/ targetCount <= 0 THEN <<>>
    ELSE IF targetCount >= Len(features) THEN features
    ELSE IF targetCount = 1 THEN <<features[1]>>
    ELSE [k \in 1..targetCount |->
            \* position = index * interval, sourceIndex = min(round(position), length - 1)
            features[Min(Round(RMul(Int2Rat(k - 1),
                                    Rat(Len(features) - 1, targetCount - 1))),
                         Len(features) - 1) + 1]]

\* createGeneratedStopFeature with the id numbered by halves of the index
createGeneratedStopFeature_HalvedId(coordinate, index, name) ==
    IF Len(coordinate) # 2 THEN NullObject
    ELSE [type |-> "Feature", id |-> "generated-stop-" \o ToString(index \div 2),
          geometry |-> [type |-> "Point", coordinates |-> coordinate],
          properties |-> [name |-> name, isSynthetic |-> TRUE]]

createGeneratedStopFeature(coordinate, index, name) ==
    IF Len(coordinate) # 2 THEN NullObject
    ELSE [type |-> "Feature", id |-> "generated-stop-" \o ToString(index),
          geometry |-> [type |-> "Point", coordinates |-> coordinate],
          properties |-> [name |-> name, isSynthetic |-> TRUE]]

ProposedStopName(index) == "Proposed Stop " \o ToString(index + 1)

\* the gaps between consecutive base stops
StopSegments(baseFeatures) ==
    [i \in 1..(Len(baseFeatures) - 1) |->
        [start |-> baseFeatures[i].geometry.coordinates,
         end |-> baseFeatures[i + 1].geometry.coordinates,
         length |-> haversineDistanceMeters(baseFeatures[i].geometry.coordinates,
                                            baseFeatures[i + 1].geometry.coordinates)]]

\* remainders.sort((a, b) => b.remainder - a.remainder): the gap indices by
\* descending remainder, equal remainders in index order (the sort is stable)
RECURSIVE SortedRemainders(_, _)
SortedRemainders(remainder, left) ==
    IF left = {} THEN <<>>
    ELSE LET best == CHOOSE i \in left :
                        \A j \in left :
                           \/ RLt(remainder[j], remainder[i])
                           \/ (remainder[j] = remainder[i] /\ i <= j)
         IN  <<best>> \o SortedRemainders(remainder, left \ {best})

\* the round-robin loops: allocations[cycleIndex % length] += 1 for each of the
\* remaining units, cycleIndex counting up from its start value
RoundRobin(allocations, remaining, cycleIndex) ==
    [i \in 1..Len(allocations) |->
        allocations[i]
        + Cardinality({k \in cycleIndex..(cycleIndex + remaining - 1) :
                          k % Len(allocations) = i - 1})]

\* the allocations after the pass over sortedRemainders: one more unit for each
\* of the first remaining gaps of the sorted order
AfterSorted(floorShare, sorted, remaining) ==
    [i \in 1..Len(floorShare) |->
        floorShare[i]
        + (IF \E k \in 1..Min(Len(sorted), Max(0, remaining)) : sorted[k] = i
           THEN 1 ELSE 0)]

\* AllocateRemaining without the pass over sortedRemainders: every remaining
\* unit goes round-robin from the first gap on
AllocateRemaining_RoundRobinOnly(floorShare, sorted, remaining) ==
    RoundRobin(floorShare, Max(0, remaining), 0)

AllocateRemaining(floorShare, sorted, remaining) ==
    RoundRobin(AfterSorted(floorShare, sorted, remaining),
               remaining - Min(Len(sorted), Max(0, remaining)), 0)

AllocateFloors(exactShare, floorShare, additionalNeeded) ==
    AllocateRemaining(
        floorShare,
        SortedRemainders([i \in 1..Len(exactShare) |->
                             RSub(exactShare[i], Int2Rat(floorShare[i]))],
                         1..Len(exactShare)),
        additionalNeeded - Sum(floorShare))

AllocateShares(exactShare, additionalNeeded) ==
    AllocateFloors(exactShare, [i \in 1..Len(exactShare) |-> Floor(exactShare[i])],
                   additionalNeeded)

AllocateOver(segments, totalLength, additionalNeeded) ==
    IF RLt(Zero, totalLength)
    THEN AllocateShares([i \in 1..Len(segments) |->
                            RMul(RDiv(segments[i].length, totalLength),
                                 Int2Rat(additionalNeeded))],
                        additionalNeeded)
    ELSE RoundRobin([i \in 1..Len(segments) |-> 0], additionalNeeded, 0)

\* the number of synthetic stops each gap receives
AllocateStops(segments, additionalNeeded) ==
    IF Len(segments) = 0 THEN <<>>
    ELSE AllocateOver(segments, TotalLength(segments), additionalNeeded)

\* the synthetic stops of one gap, the first of them numbered firstIndex
GapStops(segment, allocation, firstIndex) ==
    [step \in 1..allocation |->
        createGeneratedStopFeature(
            interpolateCoordinate(segment.start, segment.end, Rat(step, allocation + 1)),
            firstIndex + step - 1, ProposedStopName(firstIndex + step - 1))]

\* a gap's synthetic stops followed by the base stop that ends the gap
GapThenStop(baseFeatures, index, stops) == stops \o <<baseFeatures[index + 1]>>

\* orderedFeatures from base stop index (counted from 1) on, with generated
\* synthetic stops built so far
RECURSIVE InterleaveFrom(_, _, _, _, _)
InterleaveFrom(baseFeatures, segments, allocations, index, generated) ==
    IF index >= Len(baseFeatures) THEN <<>>
    ELSE GapThenStop(baseFeatures, index,
                     GapStops(segments[index], allocations[index],
                              Len(baseFeatures) + generated))
         \o InterleaveFrom(baseFeatures, segments, allocations, index + 1,
                           generated + allocations[index])

SubSeqTo(s, n) == SubSeq(s, 1, Min(n, Len(s)))

SyntheticCount(features) == Len(SelectSeq(features, LAMBDA f : f.properties.isSynthetic))

\* the synthetic stops at coordinates, numbered from firstIndex
GeneratedStops(coordinates, firstIndex) ==
    SelectSeq([i \in 1..Len(coordinates) |->
                 createGeneratedStopFeature(coordinates[i], firstIndex + i - 1,
                                            ProposedStopName(firstIndex + i - 1))],
              LAMBDA f : f.type # "null")

\* the fallback loop: synthetic stops sampled along the geometry while fewer
\* than additionalNeeded were generated in the gaps
WithFallback(orderedFeatures, geometry, baseCount, additionalNeeded, generatedCount) ==
    IF generatedCount < additionalNeeded
    THEN orderedFeatures
         \o SubSeqTo(GeneratedStops(
                         sampleCoordinatesAlongGeometry(geometry,
                                                        additionalNeeded - generatedCount),
                         baseCount + generatedCount),
                     additionalNeeded - generatedCount)
    ELSE orderedFeatures

FillGaps(baseFeatures, segments, additionalNeeded) ==
    <<baseFeatures[1]>>
    \o InterleaveFrom(baseFeatures, segments, AllocateStops(segments, additionalNeeded), 1, 0)

ExtendStops(baseFeatures, orderedFeatures, geometry, additionalNeeded) ==
    WithFallback(orderedFeatures, geometry, Len(baseFeatures), additionalNeeded,
                 SyntheticCount(orderedFeatures))

BuildFrom(baseFeatures, geometry, count) ==
    IF Len(baseFeatures) = 0
    THEN SubSeqTo(GeneratedStops(sampleCoordinatesAlongGeometry(geometry, count), 0), count)
    ELSE IF count <= Len(baseFeatures) THEN selectEvenlySpacedStops(baseFeatures, count)
    ELSE IF Len(baseFeatures) < 2
    THEN SubSeqTo(baseFeatures
                  \o GeneratedStops(
                         sampleCoordinatesAlongGeometry(geometry, count - Len(baseFeatures)),
                         Len(baseFeatures)),
                  count)
    ELSE SubSeqTo(ExtendStops(baseFeatures,
                              FillGaps(baseFeatures, StopSegments(baseFeatures),
                                       count - Len(baseFeatures)),
                              geometry, count - Len(baseFeatures)),
                  count)

buildAdjustedStopCollection(baseCollection, geometry, targetCount) ==
    IF Max(0, targetCount) <= 0 THEN FeatureCollection(<<>>)
    ELSE FeatureCollection(BuildFrom(SelectSeq(baseCollection.features, IsPointFeature),
                                     geometry, Max(0, targetCount)))

----------------------------------------------------------------------------
(* Bounds and inputs of the model.                                         *)

\* stop fetches that may be outstanding (cancelled ones included) at a time
MaxOutstanding == 3
\* largest stop count an adjustment may ask for in the coordinator's runs
MaxDisplayedStops == 6
\* largest small target count handed to buildAdjustedStopCollection directly
MaxTarget == 5

\* the route collection fetchMbtaRoutes returns: a LineString route of 10 miles
\* and a MultiLineString route with an outbound, an inbound and a branch shape
RouteFeature(id, name, geometry) ==
    [type |-> "Feature", id |-> id, geometry |-> geometry,
     properties |-> [route_id |-> id, name |-> name]]

LoadedRoutes ==
    FeatureCollection(<<
        RouteFeature("1", "Route 1",
                     [type |-> "LineString", coordinates |-> <<Pt(0), Pt(2), Pt(10)>>]),
        RouteFeature("39", "Route 39",
                     [type |-> "MultiLineString",
                      coordinates |-> <<<<Pt(0), Pt(3)>>, <<Pt(3), Pt(0)>>, <<Pt(1), Pt(2)>>>>])>>)

RouteIds == {LoadedRoutes.features[i].id : i \in 1..Len(LoadedRoutes.features)}

\* the stop collections fetchMbtaStopsForRoute may resolve with
Stop(k, lat) == normalizeStopFeature("stop-" \o ToString(k), "MBTA Stop", Pt(lat))

StopCollections ==
    { FeatureCollection(<<>>),
      FeatureCollection(<<Stop(1, 1)>>),
      FeatureCollection(<<Stop(1, 0), Stop(2, 1), Stop(3, 4)>>),
      FeatureCollection(<<Stop(1, 2), Stop(2, 2)>>),
      FeatureCollection(<<Stop(1, 0), Stop(2, 3), Stop(3, 4), Stop(4, 6)>>) }

\* the collections the coordinator's upstream answers with
UpstreamCollections == {c \in StopCollections : Len(c.features) \in {0, 1, 3}}

FetchErrors == {"request failed with status 500: "}

----------------------------------------------------------------------------
(* The App component.                                                      *)

VARIABLES
    routesData,               \* useState: the loaded route collection
    isFetchingData,           \* useState
    dataError,                \* useState
    selectedRouteId,          \* useState
    selectedRouteIdRef,       \* useRef
    selectedRouteFeatureRef,  \* useRef: the clicked route feature
    selectedRouteLengthRef,   \* useRef
    stopCacheRef,             \* useRef(new Map()): route id -> stop collection
    baseStopCollectionRef,    \* useRef
    stopScenarioRef,          \* useRef, mirrored by the stopScenarioState state
    stopDisplayCollection,    \* useState
    isFetchingStops,          \* useState
    stopDataError,            \* useState
    fetches,                  \* the outstanding fetchMbtaStopsForRoute promises
    call,                     \* a direct call of a function of the engine
    lastEvent,                \* history: the event handled last
    everFailed                \* history: the routes a stop fetch of which has rejected

vars == <<routesData, isFetchingData, dataError, selectedRouteId, selectedRouteIdRef,
          selectedRouteFeatureRef, selectedRouteLengthRef, stopCacheRef,
          baseStopCollectionRef, stopScenarioRef, stopDisplayCollection,
          isFetchingStops, stopDataError, fetches, call, lastEvent, everFailed>>

appVars == <<routesData, isFetchingData, dataError, selectedRouteId, selectedRouteIdRef,
             selectedRouteFeatureRef, selectedRouteLengthRef, stopCacheRef,
             baseStopCollectionRef, stopScenarioRef, stopDisplayCollection,
             isFetchingStops, stopDataError, fetches>>

\* the component's state as one record, for the handlers to transform
Now ==
    [routesData |-> routesData, isFetchingData |-> isFetchingData, dataError |-> dataError,
     selectedRouteId |-> selectedRouteId, selectedRouteIdRef |-> selectedRouteIdRef,
     selectedRouteFeatureRef |-> selectedRouteFeatureRef,
     selectedRouteLengthRef |-> selectedRouteLengthRef, stopCacheRef |-> stopCacheRef,
     baseStopCollectionRef |-> baseStopCollectionRef, stopScenarioRef |-> stopScenarioRef,
     stopDisplayCollection |-> stopDisplayCollection, isFetchingStops |-> isFetchingStops,
     stopDataError |-> stopDataError, fetches |-> fetches]

Becomes(s) ==
    /\ routesData' = s.routesData
    /\ isFetchingData' = s.isFetchingData
    /\ dataError' = s.dataError
    /\ selectedRouteId' = s.selectedRouteId
    /\ selectedRouteIdRef' = s.selectedRouteIdRef
    /\ selectedRouteFeatureRef' = s.selectedRouteFeatureRef
    /\ selectedRouteLengthRef' = s.selectedRouteLengthRef
    /\ stopCacheRef' = s.stopCacheRef
    /\ baseStopCollectionRef' = s.baseStopCollectionRef
    /\ stopScenarioRef' = s.stopScenarioRef
    /\ stopDisplayCollection' = s.stopDisplayCollection
    /\ isFetchingStops' = s.isFetchingStops
    /\ stopDataError' = s.stopDataError
    /\ fetches' = s.fetches

NoCall == [op |-> "none"]

\* a fetchMbtaStopsForRoute promise and the cancelled flag of the effect run
\* that issued it
Fetch(routeId, cancelled) == [route |-> routeId, cancelled |-> cancelled]

HasCached(s, routeId) == s.stopCacheRef[routeId].type # "null"

updateStopScenario(s, scenario) == [s EXCEPT !.stopScenarioRef = scenario]

clearRouteSelection(s) ==
    updateStopScenario(
        [s EXCEPT !.selectedRouteIdRef = NoRoute,
                  !.selectedRouteFeatureRef = NullObject,
                  !.selectedRouteLengthRef = Zero,
                  !.baseStopCollectionRef = EMPTY_GEOJSON,
                  !.selectedRouteId = NoRoute,
                  !.stopDisplayCollection = EMPTY_GEOJSON,
                  !.isFetchingStops = FALSE,
                  !.stopDataError = NoError],
        DEFAULT_STOP_SCENARIO)

\* resetScenario of the stops effect (called while the effect run is not cancelled)
resetScenario(s) ==
    updateStopScenario(
        [s EXCEPT !.baseStopCollectionRef = EMPTY_GEOJSON,
                  !.stopDisplayCollection = EMPTY_GEOJSON],
        DEFAULT_STOP_SCENARIO)

\* the scenario of a freshly applied base collection
BaseScenario(routeLength, collection) ==
    LET baseCount == Len(collection.features)
        baseFrequency == calculateEstimatedFrequencyMinutes(routeLength, baseCount)
    IN  [baseCount |-> baseCount, adjustedCount |-> baseCount, factor |-> Int2Rat(1),
         baseFrequencyMinutes |-> baseFrequency, adjustedFrequencyMinutes |-> baseFrequency]

\* applyCollection without setStopDisplayCollection(collection)
applyCollection_KeepsDisplay(s, collection) ==
    updateStopScenario([s EXCEPT !.baseStopCollectionRef = collection],
                       [baseCount |-> Len(collection.features),
                        adjustedCount |-> Len(collection.features),
                        factor |-> Int2Rat(1),
                        baseFrequencyMinutes |->
                            calculateEstimatedFrequencyMinutes(s.selectedRouteLengthRef,
                                                               Len(collection.features)),
                        adjustedFrequencyMinutes |->
                            calculateEstimatedFrequencyMinutes(s.selectedRouteLengthRef,
                                                               Len(collection.features))])

applyCollection(s, collection) ==
    updateStopScenario(
        [s EXCEPT !.baseStopCollectionRef = collection,
                  !.stopDisplayCollection = collection],
        BaseScenario(s.selectedRouteLengthRef, collection))

\* the cleanup of the previous run of the stops effect: cancelled = true
StopsEffectCleanup(s) ==
    [s EXCEPT !.fetches =
        LET live == {f \in BagToSet(@) : ~f.cancelled}
        IN  IF live = {} THEN @
            ELSE LET f == CHOOSE f \in live : TRUE
                 IN  (@ (-) SetToBag({f})) (+) SetToBag({Fetch(f.route, TRUE)})]

\* StopsEffectForRoute without setIsFetchingStops(false) for a cached route
StopsEffectForRoute_KeepsFlag(s) ==
    IF HasCached(s, s.selectedRouteId)
    THEN applyCollection(s, s.stopCacheRef[s.selectedRouteId])
    ELSE [resetScenario([s EXCEPT !.isFetchingStops = TRUE])
             EXCEPT !.fetches = @ (+) SetToBag({Fetch(s.selectedRouteId, FALSE)})]

\* the stops effect for a selected route, stopDataError and the route length set
StopsEffectForRoute(s) ==
    IF HasCached(s, s.selectedRouteId)
    THEN [applyCollection(s, s.stopCacheRef[s.selectedRouteId])
             EXCEPT !.isFetchingStops = FALSE]
    ELSE [resetScenario([s EXCEPT !.isFetchingStops = TRUE])
             EXCEPT !.fetches = @ (+) SetToBag({Fetch(s.selectedRouteId, FALSE)})]

\* the body of the stops effect, run for the committed selectedRouteId
StopsEffectBody(s) ==
    IF s.selectedRouteId = NoRoute
    THEN resetScenario([s EXCEPT !.isFetchingStops = FALSE, !.stopDataError = NoError])
    ELSE StopsEffectForRoute(
             [s EXCEPT !.stopDataError = NoError,
                       !.selectedRouteLengthRef =
                           IF @ # Zero THEN @
                           ELSE calculateRepresentativeRouteLengthInMeters(
                                    s.selectedRouteFeatureRef.geometry)])

\* the commit that follows a handler: useEffect(..., [selectedRouteId]) copies
\* the state to selectedRouteIdRef, and the stops effect is cleaned up and run
\* again when selectedRouteId differs from the one of its last run
RunEffects(s, previousRouteId) ==
    IF s.selectedRouteId = previousRouteId THEN s
    ELSE StopsEffectBody(
             StopsEffectCleanup([s EXCEPT !.selectedRouteIdRef = s.selectedRouteId]))

\* RouteClickCache whose cache branch leaves the scenario as it is
RouteClickCache_KeepsScenario(s, routeId) ==
    IF HasCached(s, routeId)
    THEN [s EXCEPT !.baseStopCollectionRef = s.stopCacheRef[routeId],
                   !.stopDisplayCollection = s.stopCacheRef[routeId]]
    ELSE updateStopScenario(
             [s EXCEPT !.baseStopCollectionRef = EMPTY_GEOJSON,
                       !.stopDisplayCollection = EMPTY_GEOJSON],
             DEFAULT_STOP_SCENARIO)

\* the bus-routes-line click handler after it has set the refs and the state
RouteClickCache(s, routeId) ==
    IF HasCached(s, routeId)
    THEN updateStopScenario(
             [s EXCEPT !.baseStopCollectionRef = s.stopCacheRef[routeId],
                       !.stopDisplayCollection = s.stopCacheRef[routeId]],
             BaseScenario(s.selectedRouteLengthRef, s.stopCacheRef[routeId]))
    ELSE updateStopScenario(
             [s EXCEPT !.baseStopCollectionRef = EMPTY_GEOJSON,
                       !.stopDisplayCollection = EMPTY_GEOJSON],
             DEFAULT_STOP_SCENARIO)

\* mapRef.current.on('click', 'bus-routes-line', ...)
RouteClickHandler(s, feature) ==
    RouteClickCache(
        [s EXCEPT !.selectedRouteIdRef = feature.id,
                  !.selectedRouteFeatureRef = feature,
                  !.selectedRouteLengthRef =
                      calculateRepresentativeRouteLengthInMeters(feature.geometry),
                  !.selectedRouteId = feature.id],
        feature.id)

\* EmptyMapClickHandler that also deletes the cache entry of the deselected route
EmptyMapClickHandler_DropsCache(s) ==
    updateStopScenario(
        [s EXCEPT !.selectedRouteIdRef = NoRoute,
                  !.selectedRouteFeatureRef = NullObject,
                  !.selectedRouteLengthRef = Zero,
                  !.selectedRouteId = NoRoute,
                  !.baseStopCollectionRef = EMPTY_GEOJSON,
                  !.stopDisplayCollection = EMPTY_GEOJSON,
                  !.stopCacheRef = [r \in DOMAIN @ |->
                                       IF r = s.selectedRouteIdRef THEN NullObject ELSE @[r]]],
        DEFAULT_STOP_SCENARIO)

\* mapRef.current.on('click', ...) for a click without shift that hits no route
EmptyMapClickHandler(s) ==
    updateStopScenario(
        [s EXCEPT !.selectedRouteIdRef = NoRoute,
                  !.selectedRouteFeatureRef = NullObject,
                  !.selectedRouteLengthRef = Zero,
                  !.selectedRouteId = NoRoute,
                  !.baseStopCollectionRef = EMPTY_GEOJSON,
                  !.stopDisplayCollection = EMPTY_GEOJSON],
        DEFAULT_STOP_SCENARIO)

\* EffectCancelled without the cleanup's flag: no run is ever seen as cancelled
EffectCancelled_Never(f) == FALSE

\* whether the handlers of a settled promise of effect run f return at once
EffectCancelled(f) == f.cancelled

\* whether the handlers of a settled promise drop it as stale
IsStale(s, requestedRouteId) == s.selectedRouteIdRef # requestedRouteId

\* FetchFinally that leaves isFetchingStops set
FetchFinally_KeepsLoading(s, requestedRouteId) == s

\* .finally(() => ...) of a promise whose effect run is not cancelled
FetchFinally(s, requestedRouteId) ==
    IF s.selectedRouteIdRef = requestedRouteId THEN [s EXCEPT !.isFetchingStops = FALSE]
    ELSE s

\* .then(collection => ...) of a promise whose effect run is not cancelled
FetchThen(s, requestedRouteId, collection) ==
    IF IsStale(s, requestedRouteId)
    THEN [s EXCEPT !.stopCacheRef[requestedRouteId] = collection]
    ELSE applyCollection([s EXCEPT !.stopCacheRef[requestedRouteId] = collection],
                         collection)

\* FetchCatch that issues the fetch again after a failure
FetchCatch_Retries(s, requestedRouteId, message) ==
    IF IsStale(s, requestedRouteId) THEN s
    ELSE [resetScenario([s EXCEPT !.stopDataError = message])
             EXCEPT !.fetches = @ (+) SetToBag({Fetch(requestedRouteId, FALSE)})]

\* .catch(error => ...) of a promise whose effect run is not cancelled
FetchCatch(s, requestedRouteId, message) ==
    IF IsStale(s, requestedRouteId) THEN s
    ELSE resetScenario([s EXCEPT !.stopDataError = message])

Settled(s, f) == [s EXCEPT !.fetches = @ (-) SetToBag({f})]

\* FetchResolved without the cancelled and staleness checks: every result is applied
FetchResolved_Unguarded(s, f, collection) ==
    FetchFinally(applyCollection([Settled(s, f) EXCEPT !.stopCacheRef[f.route] = collection],
                                 collection),
                 f.route)

\* the promise of f resolves: .then, .finally
FetchResolved(s, f, collection) ==
    IF EffectCancelled(f) THEN Settled(s, f)
    ELSE FetchFinally(FetchThen(Settled(s, f), f.route, collection), f.route)

\* the promise of f rejects: .catch, .finally
FetchRejected(s, f, message) ==
    IF EffectCancelled(f) THEN Settled(s, f)
    ELSE FetchFinally(FetchCatch(Settled(s, f), f.route, message), f.route)

\* Nudge without the step away from the current count
Nudge_Never(targetCount, currentAdjustedCount, change) == targetCount

\* if (targetCount === currentAdjustedCount) { ... targetCount += 1 / -= 1 ... }
Nudge(targetCount, currentAdjustedCount, change) ==
    IF targetCount = currentAdjustedCount
    THEN IF RLt(Zero, change) /\ targetCount < MAX_ADJUSTED_STOPS THEN targetCount + 1
         ELSE IF RLt(change, Zero) /\ targetCount > 1 THEN targetCount - 1
         ELSE targetCount
    ELSE targetCount

\* the branch baseCount > 0
ScaledCount(baseCount, currentFactor, change) ==
    Max(1, Round(RMul(Int2Rat(baseCount),
                      RMin(RMax(RMul(currentFactor, RAdd(Int2Rat(1), change)),
                                Rat(1, baseCount)),
                           Rat(MAX_ADJUSTED_STOPS, baseCount)))))

\* ScaledTarget with nextFactor left at 1
ScaledTarget_FactorOne(baseCount, targetCount) ==
    [targetCount |-> Max(1, Min(MAX_ADJUSTED_STOPS, targetCount)),
     nextFactor |-> Int2Rat(1), baseCount |-> baseCount]

ScaledTarget(baseCount, targetCount) ==
    [targetCount |-> Max(1, Min(MAX_ADJUSTED_STOPS, targetCount)),
     nextFactor |-> Rat(targetCount, baseCount), baseCount |-> baseCount]

\* the branch baseCount = 0: Math.max(1, Math.min(maxCount, proposedCount || 1))
UnscaledCount(currentAdjustedCount, change) ==
    Max(1, Min(MAX_ADJUSTED_STOPS,
               Round(RMul(Int2Rat(currentAdjustedCount), RAdd(Int2Rat(1), change)))))

UnscaledTarget(currentScenario, targetCount) ==
    [targetCount |-> Max(1, Min(MAX_ADJUSTED_STOPS, targetCount)),
     nextFactor |-> IF currentScenario.factor # Zero THEN currentScenario.factor
                    ELSE Int2Rat(1),
     baseCount |-> 0]

TargetFrom(currentScenario, baseCount, currentAdjustedCount, change) ==
    IF baseCount > 0
    THEN ScaledTarget(
             baseCount,
             Nudge(ScaledCount(baseCount,
                               IF currentScenario.factor # Zero THEN currentScenario.factor
                               ELSE Rat(currentAdjustedCount, baseCount),
                               change),
                   currentAdjustedCount, change))
    ELSE UnscaledTarget(
             currentScenario,
             Nudge(UnscaledCount(currentAdjustedCount, change), currentAdjustedCount, change))

\* currentScenario.adjustedCount || baseCount || 1
CurrentAdjustedCount(currentScenario, baseCount) ==
    IF currentScenario.adjustedCount # 0 THEN currentScenario.adjustedCount
    ELSE IF baseCount # 0 THEN baseCount ELSE 1

BaseCountOf(collection) == Len(SelectSeq(collection.features, IsPointFeature))

\* the target count and factor adjustStopsByPercentage arrives at
AdjustTarget(s, change) ==
    TargetFrom(s.stopScenarioRef, BaseCountOf(s.baseStopCollectionRef),
               CurrentAdjustedCount(s.stopScenarioRef, BaseCountOf(s.baseStopCollectionRef)),
               change)

\* AdjustTo that also takes the adjusted collection as the base collection
AdjustTo_ReplacesBase(s, geometry, target, routeLength) ==
    updateStopScenario(
        [s EXCEPT !.selectedRouteLengthRef = routeLength,
                  !.baseStopCollectionRef =
                      buildAdjustedStopCollection(s.baseStopCollectionRef, geometry,
                                                  target.targetCount),
                  !.stopDisplayCollection =
                      buildAdjustedStopCollection(s.baseStopCollectionRef, geometry,
                                                  target.targetCount)],
        [baseCount |-> target.baseCount,
         adjustedCount |-> target.targetCount,
         factor |-> target.nextFactor,
         baseFrequencyMinutes |->
             IF s.stopScenarioRef.baseFrequencyMinutes # Null
             THEN s.stopScenarioRef.baseFrequencyMinutes
             ELSE calculateEstimatedFrequencyMinutes(routeLength, target.baseCount),
         adjustedFrequencyMinutes |->
             calculateEstimatedFrequencyMinutes(routeLength, target.targetCount)])

\* adjustStopsByPercentage from the route length on
AdjustTo(s, geometry, target, routeLength) ==
    updateStopScenario(
        [s EXCEPT !.selectedRouteLengthRef = routeLength,
                  !.stopDisplayCollection =
                      buildAdjustedStopCollection(s.baseStopCollectionRef, geometry,
                                                  target.targetCount)],
        [baseCount |-> target.baseCount,
         adjustedCount |-> target.targetCount,
         factor |-> target.nextFactor,
         baseFrequencyMinutes |->
             IF s.stopScenarioRef.baseFrequencyMinutes # Null
             THEN s.stopScenarioRef.baseFrequencyMinutes
             ELSE calculateEstimatedFrequencyMinutes(routeLength, target.baseCount),
         adjustedFrequencyMinutes |->
             calculateEstimatedFrequencyMinutes(routeLength, target.targetCount)])

adjustStopsByPercentage(s, change) ==
    IF s.selectedRouteFeatureRef.type = "null" THEN s
    ELSE AdjustTo(s, s.selectedRouteFeatureRef.geometry, AdjustTarget(s, change),
                  IF s.selectedRouteLengthRef # Zero THEN s.selectedRouteLengthRef
                  ELSE calculateRepresentativeRouteLengthInMeters(
                           s.selectedRouteFeatureRef.geometry))

----------------------------------------------------------------------------
(* The coordinator as a state machine.                                     *)

\* the state once the map has loaded and the route load has been started
AppInit ==
    /\ routesData = EMPTY_GEOJSON
    /\ isFetchingData = TRUE
    /\ dataError = NoError
    /\ selectedRouteId = NoRoute
    /\ selectedRouteIdRef = NoRoute
    /\ selectedRouteFeatureRef = NullObject
    /\ selectedRouteLengthRef = Zero
    /\ stopCacheRef = [r \in RouteIds |-> NullObject]
    /\ baseStopCollectionRef = EMPTY_GEOJSON
    /\ stopScenarioRef = DEFAULT_STOP_SCENARIO
    /\ stopDisplayCollection = EMPTY_GEOJSON
    /\ isFetchingStops = FALSE
    /\ stopDataError = NoError
    /\ fetches = EmptyBag

\* the history variables record what happened; no handler reads them
Event(kind, routeId, flag) == [kind |-> kind, route |-> routeId, flag |-> flag]

Logged(event) == lastEvent' = event /\ UNCHANGED <<call, everFailed>>

Init ==
    /\ AppInit
    /\ call = NoCall
    /\ lastEvent = Event("start", NoRoute, FALSE)
    /\ everFailed = {}

\* loadData: fetchMbtaRoutes resolves
RoutesLoaded ==
    /\ isFetchingData
    /\ Becomes([Now EXCEPT !.routesData = LoadedRoutes, !.isFetchingData = FALSE])
    /\ Logged(Event("routesLoaded", NoRoute, FALSE))

\* loadData: fetchMbtaRoutes rejects
RoutesLoadFailed ==
    /\ isFetchingData
    /\ Becomes([Now EXCEPT !.routesData = EMPTY_GEOJSON,
                           !.dataError = "Failed to load routes from the MBTA API.",
                           !.isFetchingData = FALSE])
    /\ Logged(Event("routesLoadFailed", NoRoute, FALSE))

\* the buttons of the popup are wired up unless disableButtons
ButtonsEnabled ==
    /\ selectedRouteFeatureRef.type # "null"
    /\ ~isFetchingStops
    /\ stopDataError = NoError

\* a click on the line of a route (flag: the route had a cache entry)
ClickRoute(feature) ==
    /\ \/ feature.id = selectedRouteId
       \/ HasCached(Now, feature.id)
       \/ BagCardinality(fetches) < MaxOutstanding
    /\ Becomes(RunEffects(RouteClickHandler(Now, feature), selectedRouteId))
    /\ Logged(Event("clickRoute", feature.id, HasCached(Now, feature.id)))

\* a click on the map that hits no route
ClickEmptyMap ==
    /\ Becomes(RunEffects(EmptyMapClickHandler(Now), selectedRouteId))
    /\ Logged(Event("clickEmptyMap", NoRoute, FALSE))

\* a click on the close button of the popup
ClosePopup ==
    /\ selectedRouteFeatureRef.type # "null"
    /\ Becomes(RunEffects(clearRouteSelection(Now), selectedRouteId))
    /\ Logged(Event("closePopup", NoRoute, FALSE))

\* a click on "+25% stops"
IncreaseStops ==
    /\ ButtonsEnabled
    /\ AdjustTarget(Now, Rat(1, 4)).targetCount <= MaxDisplayedStops
    /\ Becomes(adjustStopsByPercentage(Now, Rat(1, 4)))
    /\ Logged(Event("increaseStops", selectedRouteIdRef, FALSE))

\* a click on "-25% stops"
DecreaseStops ==
    /\ ButtonsEnabled
    /\ Becomes(adjustStopsByPercentage(Now, Rat(-1, 4)))
    /\ Logged(Event("decreaseStops", selectedRouteIdRef, FALSE))

\* a stop fetch resolves with a collection (flag: its effect run was cancelled)
StopsFetchResolves(f, collection) ==
    /\ Becomes(FetchResolved(Now, f, collection))
    /\ Logged(Event("stopsResolved", f.route, f.cancelled))

\* a stop fetch rejects (flag: its effect run was cancelled)
StopsFetchRejects(f, message) ==
    /\ Becomes(FetchRejected(Now, f, message))
    /\ lastEvent' = Event("stopsRejected", f.route, f.cancelled)
    /\ everFailed' = everFailed \cup {f.route}
    /\ UNCHANGED call

Next ==
    \/ RoutesLoaded
    \/ RoutesLoadFailed
    \/ \E i \in 1..Len(routesData.features) : ClickRoute(routesData.features[i])
    \/ ClickEmptyMap
    \/ ClosePopup
    \/ IncreaseStops
    \/ DecreaseStops
    \/ \E f \in BagToSet(fetches), collection \in UpstreamCollections :
          StopsFetchResolves(f, collection)
    \/ \E f \in BagToSet(fetches), message \in FetchErrors : StopsFetchRejects(f, message)

Spec == Init /\ [][Next]_vars

----------------------------------------------------------------------------
(* Direct calls of buildAdjustedStopCollection.                            *)

Geometries == {LoadedRoutes.features[i].geometry : i \in 1..Len(LoadedRoutes.features)}

TargetCounts == (0..MaxTarget)
                \cup ((MAX_ADJUSTED_STOPS - 1)..(MAX_ADJUSTED_STOPS + 1))

\* two calls redistribute(base, geometry, t1) and redistribute(base, geometry, t2)
InitRedistribute ==
    /\ AppInit
    /\ lastEvent = Event("start", NoRoute, FALSE)
    /\ everFailed = {}
    /\ \E base \in StopCollections, geometry \in Geometries,
          t1 \in TargetCounts, t2 \in TargetCounts :
          /\ t1 <= t2
          /\ call = [op |-> "redistribute", base |-> base, geometry |-> geometry,
                     t1 |-> t1, t2 |-> t2, done |-> FALSE,
                     out1 |-> EMPTY_GEOJSON, out2 |-> EMPTY_GEOJSON]

Redistribute ==
    /\ call.op = "redistribute"
    /\ ~call.done
    /\ call' = [call EXCEPT
                  !.done = TRUE,
                  !.out1 = buildAdjustedStopCollection(call.base, call.geometry, call.t1),
                  !.out2 = buildAdjustedStopCollection(call.base, call.geometry, call.t2)]
    /\ UNCHANGED <<appVars, lastEvent, everFailed>>

SpecRedistribute == InitRedistribute /\ [][Redistribute]_vars


----------------------------------------------------------------------------
(* The coordinator's states.                                               *)

\* the stop fetches for routeId in a bag of fetches, cancelled ones included
OutstandingIn(bag, routeId) ==
    CopiesIn(Fetch(routeId, FALSE), bag) + CopiesIn(Fetch(routeId, TRUE), bag)

Loading(routeId) == selectedRouteIdRef = routeId /\ isFetchingStops

Ready(routeId) ==
    /\ selectedRouteIdRef = routeId
    /\ ~isFetchingStops
    /\ stopCacheRef[routeId].type # "null"
    /\ baseStopCollectionRef = stopCacheRef[routeId]

Failed(routeId) ==
    /\ selectedRouteIdRef = routeId
    /\ ~isFetchingStops
    /\ stopDataError # NoError

\* the promise of f settles and f leaves the outstanding fetches; the steps of
\* Next that take f out of fetches and put nothing in are StopsFetchResolves(f, _)
\* and StopsFetchRejects(f, _)
FetchSettles(f) ==
    /\ f \in BagToSet(fetches)
    /\ fetches' = fetches (-) SetToBag({f})

\* every outstanding stop fetch eventually settles (the browser resolves or
\* rejects every fetch promise)
SpecFair ==
    /\ Spec
    /\ \A r \in RouteIds : \A c \in BOOLEAN : WF_fetches(FetchSettles(Fetch(r, c)))

----------------------------------------------------------------------------
(* Claims.                                                                 *)

\* C1: a stop-fetch response (success or failure) for a route that is not the
\* selected route when it arrives leaves the base stop collection, the
\* displayed collection, the scenario and the stop error message as they were.
C1_StaleResponseNotApplied ==
    [][(/\ lastEvent'.kind \in {"stopsResolved", "stopsRejected"}
        /\ lastEvent'.route # selectedRouteIdRef)
       => UNCHANGED <<baseStopCollectionRef, stopDisplayCollection, stopScenarioRef,
                      stopDataError>>]_vars

\* a stale response arrived while another route was selected and shown
C1_Witness ==
    /\ lastEvent.kind = "stopsResolved"
    /\ selectedRouteIdRef # NoRoute
    /\ lastEvent.route # selectedRouteIdRef
    /\ Len(stopDisplayCollection.features) > 0

\* C2: at no time are two stop fetches for the same route id outstanding.
C2_OneFetchPerRoute == \A r \in RouteIds : OutstandingIn(fetches, r) <= 1

\* C3: a cache entry, once stored, is never removed or replaced, and a selection
\* of a cached route takes the cached collection as base stops and issues no
\* stop fetch.
C3_CacheEntryKept ==
    [][/\ \A r \in RouteIds :
             stopCacheRef[r].type # "null" => stopCacheRef'[r] = stopCacheRef[r]
       /\ (lastEvent'.kind = "clickRoute" /\ stopCacheRef[lastEvent'.route].type # "null")
          => /\ baseStopCollectionRef' = stopCacheRef[lastEvent'.route]
             /\ \A r \in RouteIds : OutstandingIn(fetches', r) = OutstandingIn(fetches, r)
      ]_vars

\* a cached route was selected again and its cached stops became the base stops
C3_Witness ==
    /\ lastEvent.kind = "clickRoute"
    /\ lastEvent.flag
    /\ selectedRouteIdRef = lastEvent.route
    /\ baseStopCollectionRef = stopCacheRef[lastEvent.route]
    /\ Len(baseStopCollectionRef.features) > 0
    /\ fetches # EmptyBag

\* C4: clearing the selection (popup close, click on the empty map) resets the
\* scenario to its defaults, empties the base and displayed collections and
\* leaves the per-route cache unchanged.
C4_ClearResetsScenarioKeepsCache ==
    [][lastEvent'.kind \in {"clickEmptyMap", "closePopup"}
       => /\ stopScenarioRef' = DEFAULT_STOP_SCENARIO
          /\ baseStopCollectionRef' = EMPTY_GEOJSON
          /\ stopDisplayCollection' = EMPTY_GEOJSON
          /\ stopCacheRef' = stopCacheRef]_vars

\* the selection of a cached route was cleared
C4_Witness ==
    /\ lastEvent.kind \in {"clickEmptyMap", "closePopup"}
    /\ selectedRouteIdRef = NoRoute
    /\ \E r \in RouteIds : stopCacheRef[r].type # "null"
                           /\ Len(stopCacheRef[r].features) > 0
    /\ stopScenarioRef = DEFAULT_STOP_SCENARIO

\* C5: when a stop fetch for the selected route fails, the error message is
\* set, the scenario is reset with an empty displayed collection, the loading
\* flag is cleared and the cache is unchanged.
C5_FailureEntersFailed ==
    [][(lastEvent'.kind = "stopsRejected" /\ lastEvent'.route = selectedRouteIdRef)
       => /\ stopDataError' # NoError
          /\ stopScenarioRef' = DEFAULT_STOP_SCENARIO
          /\ stopDisplayCollection' = EMPTY_GEOJSON
          /\ ~isFetchingStops'
          /\ stopCacheRef' = stopCacheRef]_vars

\* C6: a stop fetch is issued only by a selection change to a route without a
\* cache entry, and every such selection issues one; the completion of a fetch
\* (a failure included) takes that fetch out of the outstanding fetches and
\* issues none.
C6_FetchOnlyOnSelection ==
    [][/\ lastEvent'.kind \in {"stopsResolved", "stopsRejected"}
          => fetches' = fetches (-) SetToBag({Fetch(lastEvent'.route, lastEvent'.flag)})
       /\ (/\ lastEvent'.kind \notin {"stopsResolved", "stopsRejected"}
           /\ \E r \in RouteIds : OutstandingIn(fetches', r) > OutstandingIn(fetches, r))
          => /\ lastEvent'.kind = "clickRoute"
             /\ lastEvent'.route # selectedRouteId
             /\ stopCacheRef[lastEvent'.route].type = "null"
             /\ \A r \in RouteIds :
                   OutstandingIn(fetches', r)
                   = OutstandingIn(fetches, r) + (IF r = lastEvent'.route THEN 1 ELSE 0)
       /\ (/\ lastEvent'.kind = "clickRoute"
           /\ lastEvent'.route # selectedRouteId
           /\ stopCacheRef[lastEvent'.route].type = "null")
          => /\ CopiesIn(Fetch(lastEvent'.route, FALSE), fetches') = 1
             /\ OutstandingIn(fetches', lastEvent'.route)
                = OutstandingIn(fetches, lastEvent'.route) + 1
      ]_vars

\* a route whose fetch failed before was selected again and is being fetched
C6_Witness ==
    /\ lastEvent.kind = "clickRoute"
    /\ lastEvent.route \in everFailed
    /\ selectedRouteIdRef = lastEvent.route
    /\ CopiesIn(Fetch(lastEvent.route, FALSE), fetches) = 1
    /\ isFetchingStops

\* C7: a selected route is in exactly one of Loading, Ready (base stops = the
\* fetched collection, no error) and Failed (error message set); Loading is
\* entered only by selecting a route without a cache entry; and, every fetch
\* settling eventually, a Loading route that stays selected becomes Ready or
\* Failed.
C7_LoadingLeadsToReadyOrFailed ==
    /\ [](\A r \in RouteIds :
            selectedRouteIdRef = r
            => /\ Loading(r) \/ Ready(r) \/ Failed(r)
               /\ ~(Loading(r) /\ Ready(r))
               /\ ~(Loading(r) /\ Failed(r))
               /\ ~(Ready(r) /\ Failed(r))
               /\ Ready(r) => stopDataError = NoError)
    /\ [][\A r \in RouteIds :
            (~Loading(r) /\ Loading(r)')
            => /\ lastEvent'.kind = "clickRoute"
               /\ lastEvent'.route = r
               /\ stopCacheRef[r].type = "null"]_vars
    /\ \A r \in RouteIds :
          Loading(r) ~> (selectedRouteIdRef # r \/ Ready(r) \/ Failed(r))

\* the fetch of the selected route resolved and the route is Ready
C7_Witness ==
    /\ lastEvent.kind = "stopsResolved"
    /\ ~lastEvent.flag
    /\ Ready(lastEvent.route)
    /\ stopDataError = NoError

C9_Idempotent ==
    call.op = "redistribute" /\ call.done /\ Len(call.base.features) >= 1
    => /\ call.t1 = Len(call.base.features) => call.out1.features = call.base.features
       /\ call.t2 = Len(call.base.features) => call.out2.features = call.base.features

\* redistribute was called with the number of base stops as its target
C9_Witness ==
    /\ call.op = "redistribute"
    /\ call.done
    /\ Len(call.base.features) >= 2
    /\ call.t1 = Len(call.base.features)
    /\ call.out1 = call.base

\* C10: for t1 <= t2, redistribute(.., t1) has no more synthetic stops and no
\* more stops in total than redistribute(.., t2).
C10_Monotone ==
    call.op = "redistribute" /\ call.done /\ call.t1 <= call.t2
    => /\ SyntheticCount(call.out1.features) <= SyntheticCount(call.out2.features)
       /\ Len(call.out1.features) <= Len(call.out2.features)

\* two calls, one reducing the base stops and one adding synthetic stops
C10_Witness ==
    /\ call.op = "redistribute"
    /\ call.done
    /\ 1 <= call.t1
    /\ call.t1 < Len(call.base.features)
    /\ Len(call.base.features) < call.t2
    /\ SyntheticCount(call.out2.features) > 0


\* C11: in every result of redistribute the synthetic stops carry, in output
\* order, the ids generated-stop-n for n = baseCount, baseCount + 1, ... (so the
\* ids increase strictly and are pairwise distinct), no synthetic id is the id
\* of a base stop, and a stop of the result is flagged isSynthetic exactly when
\* it is not a base stop.
C11_SyntheticIdsIncrease ==
    call.op = "redistribute" /\ call.done
    => \A out \in {call.out1, call.out2} :
          /\ \A k \in 1..SyntheticCount(out.features) :
                SelectSeq(out.features, LAMBDA f : f.properties.isSynthetic)[k].id
                = "generated-stop-"
                  \o ToString(Len(SelectSeq(call.base.features, IsPointFeature)) + k - 1)
          /\ Cardinality({out.features[i].id : i \in 1..Len(out.features)})
             = Len(out.features)
          /\ \A i \in 1..Len(out.features) :
                out.features[i].properties.isSynthetic
                <=> (\A j \in 1..Len(call.base.features) :
                        /\ call.base.features[j] # out.features[i]
                        /\ call.base.features[j].id # out.features[i].id)

\* a result in which synthetic stops lie between base stops
C11_Witness ==
    /\ call.op = "redistribute"
    /\ call.done
    /\ Len(call.base.features) >= 3
    /\ SyntheticCount(call.out2.features) >= 2
    /\ \E i \in 2..(Len(call.out2.features) - 1) :
          /\ call.out2.features[i].properties.isSynthetic
          /\ ~call.out2.features[i + 1].properties.isSynthetic

\* C12: in every reachable scenario with baseCount > 0 (after a route load, a
\* cache hit and any sequence of +25% / -25% adjustments),
\* factor = adjustedCount / baseCount.
C12_FactorIsRatio ==
    stopScenarioRef.baseCount > 0
    => stopScenarioRef.factor
       = Rat(stopScenarioRef.adjustedCount, stopScenarioRef.baseCount)

\* an adjustment has moved adjustedCount away from baseCount
C12_Witness ==
    /\ lastEvent.kind \in {"increaseStops", "decreaseStops"}
    /\ stopScenarioRef.baseCount > 1
    /\ stopScenarioRef.adjustedCount # stopScenarioRef.baseCount
    /\ stopScenarioRef.factor # Int2Rat(1)

----------------------------------------------------------------------------
(* The coordinator against an upstream whose routes have more stops than   *)
(* MAX_ADJUSTED_STOPS.                                                     *)

\* fetchMbtaStopsForRoute pages through every stop of the route: a collection of
\* MAX_ADJUSTED_STOPS + 1 stops
LargeCollection ==
    FeatureCollection([k \in 1..(MAX_ADJUSTED_STOPS + 1) |-> Stop(k, k % 10)])

NextLarge ==
    \/ RoutesLoaded
    \/ RoutesLoadFailed
    \/ \E i \in 1..Len(routesData.features) : ClickRoute(routesData.features[i])
    \/ ClickEmptyMap
    \/ ClosePopup
    \/ IncreaseStops
    \/ DecreaseStops
    \/ \E f \in BagToSet(fetches) : StopsFetchResolves(f, LargeCollection)
    \/ \E f \in BagToSet(fetches), message \in FetchErrors : StopsFetchRejects(f, message)

SpecLarge == Init /\ [][NextLarge]_vars

\* C13: after every adjustment that takes effect adjustedCount is between 1 and
\* MAX_ADJUSTED_STOPS, and for a selected route in Ready state adjustedCount
\* never exceeds MAX_ADJUSTED_STOPS, also when the fetched base stop count is
\* larger than MAX_ADJUSTED_STOPS.
C13_AdjustedCountClamped ==
    /\ lastEvent.kind \in {"increaseStops", "decreaseStops"}
       => stopScenarioRef.adjustedCount \in 1..MAX_ADJUSTED_STOPS
    /\ (selectedRouteIdRef # NoRoute /\ Ready(selectedRouteIdRef))
       => stopScenarioRef.adjustedCount <= MAX_ADJUSTED_STOPS

----------------------------------------------------------------------------
(* One selection followed by any number of adjustments, up to              *)
(* MAX_ADJUSTED_STOPS.                                                     *)

\* a click on "+25% stops", whatever the stop count it asks for
IncreaseStopsFreely ==
    /\ ButtonsEnabled
    /\ Becomes(adjustStopsByPercentage(Now, Rat(1, 4)))
    /\ Logged(Event("increaseStops", selectedRouteIdRef, FALSE))

NextAdjust ==
    \/ RoutesLoaded
    \/ \E i \in 1..Len(routesData.features) :
          selectedRouteId = NoRoute /\ ClickRoute(routesData.features[i])
    \/ \E f \in BagToSet(fetches), collection \in UpstreamCollections :
          StopsFetchResolves(f, collection)
    \/ IncreaseStopsFreely
    \/ DecreaseStops

SpecAdjust == Init /\ [][NextAdjust]_vars

\* C14: for a selected route, +25% with adjustedCount < MAX_ADJUSTED_STOPS and
\* -25% with adjustedCount > 1 each give an adjustedCount different from the
\* current one; +25% at adjustedCount = MAX_ADJUSTED_STOPS and -25% at
\* adjustedCount = 1 leave adjustedCount unchanged.
C14_AdjustHasEffect ==
    [][/\ (lastEvent'.kind = "increaseStops"
           /\ stopScenarioRef.adjustedCount < MAX_ADJUSTED_STOPS)
          => stopScenarioRef'.adjustedCount # stopScenarioRef.adjustedCount
       /\ (lastEvent'.kind = "decreaseStops" /\ stopScenarioRef.adjustedCount > 1)
          => stopScenarioRef'.adjustedCount # stopScenarioRef.adjustedCount
       /\ (lastEvent'.kind = "increaseStops"
           /\ stopScenarioRef.adjustedCount = MAX_ADJUSTED_STOPS)
          => stopScenarioRef'.adjustedCount = MAX_ADJUSTED_STOPS
       /\ (lastEvent'.kind = "decreaseStops" /\ stopScenarioRef.adjustedCount = 1)
          => stopScenarioRef'.adjustedCount = 1
      ]_vars

\* +25% clicks have taken a route of three stops to MAX_ADJUSTED_STOPS
C14_Witness ==
    /\ lastEvent.kind = "increaseStops"
    /\ stopScenarioRef.baseCount = 3
    /\ stopScenarioRef.adjustedCount = MAX_ADJUSTED_STOPS
    /\ Len(stopDisplayCollection.features) = MAX_ADJUSTED_STOPS

----------------------------------------------------------------------------
(* One selection of a route of about ten stops, followed by adjustments.   *)

\* largest stop count an adjustment may ask for in these runs
MaxWorkedStops == 16

\* collections of 8 to 12 stops, one per mile from the start of the route
WorkedCollections ==
    {FeatureCollection([k \in 1..n |-> Stop(k, k - 1)]) : n \in 8..12}

\* a click on "+25% stops" that asks for at most limit stops
IncreaseStopsUpTo(limit) ==
    /\ AdjustTarget(Now, Rat(1, 4)).targetCount <= limit
    /\ IncreaseStopsFreely

NextWorked ==
    \/ RoutesLoaded
    \/ \E i \in 1..Len(routesData.features) :
          selectedRouteId = NoRoute /\ ClickRoute(routesData.features[i])
    \/ \E f \in BagToSet(fetches), collection \in WorkedCollections :
          StopsFetchResolves(f, collection)
    \/ IncreaseStopsUpTo(MaxWorkedStops)
    \/ DecreaseStops

SpecWorked == Init /\ [][NextWorked]_vars

\* C15: a Ready route of 10 stops and 16093.4 m has base frequency 8.75 min;
\* one +25% adjustment from there sets adjustedCount to 13 and
\* adjustedFrequencyMinutes to 8.875 min while baseCount stays 10 and
\* baseFrequencyMinutes stays 8.75.
C15_WorkedScenario ==
    /\ []((/\ lastEvent.kind = "stopsResolved"
           /\ selectedRouteIdRef = lastEvent.route
           /\ selectedRouteLengthRef = Rat(160934, 10)
           /\ Len(baseStopCollectionRef.features) = 10)
          => /\ stopScenarioRef.baseCount = 10
             /\ stopScenarioRef.adjustedCount = 10
             /\ stopScenarioRef.baseFrequencyMinutes = Rat(875, 100)
             /\ stopScenarioRef.adjustedFrequencyMinutes = Rat(875, 100))
    /\ [][(/\ lastEvent'.kind = "increaseStops"
           /\ selectedRouteLengthRef = Rat(160934, 10)
           /\ stopScenarioRef.baseCount = 10
           /\ stopScenarioRef.adjustedCount = 10)
          => /\ stopScenarioRef'.adjustedCount = 13
             /\ stopScenarioRef'.adjustedFrequencyMinutes = Rat(8875, 1000)
             /\ stopScenarioRef'.baseCount = 10
             /\ stopScenarioRef'.baseFrequencyMinutes = Rat(875, 100)
             /\ Len(stopDisplayCollection'.features) = 13]_vars

\* the route of 10 miles and 10 stops after one +25% adjustment
C15_Witness ==
    /\ lastEvent.kind = "increaseStops"
    /\ selectedRouteLengthRef = Rat(160934, 10)
    /\ stopScenarioRef.baseCount = 10
    /\ stopScenarioRef.adjustedCount = 13
    /\ stopScenarioRef.factor = Rat(13, 10)

----------------------------------------------------------------------------
(* Direct calls of calculateEstimatedFrequencyMinutes, with arguments that *)
(* need not be finite numbers.                                             *)

\* a JavaScript number: a finite one, NaN, Infinity or -Infinity
Finite(value) == [kind |-> "finite", value |-> value]
NaN == [kind |-> "NaN", value |-> 0]
Infinity == [kind |-> "Infinity", value |-> 0]
MinusInfinity == [kind |-> "-Infinity", value |-> 0]

\* Number.isFinite(stopCount) ? stopCount : 0
StopsRaw(stopCount) == IF stopCount.kind = "finite" THEN stopCount.value ELSE 0

\* calculateEstimatedFrequencyMinutes for a length that is not finite: the travel
\* time is 0; Math.round(routeLengthMiles) is NaN, Infinity or -Infinity, so
\* estimatedBusesInService is 1 (NaN || 1, Math.max(1, -Infinity)) or Infinity
FrequencyOfNonFinite(length, dwellMinutes) ==
    IF RLe(dwellMinutes, Zero) THEN DwellOrNull(dwellMinutes)
    ELSE IF length.kind = "Infinity" THEN FrequencyOrDwell(Zero, dwellMinutes)
    ELSE FrequencyOrDwell(RDiv(dwellMinutes, Int2Rat(1)), dwellMinutes)

\* calculateEstimatedFrequencyMinutes on JavaScript numbers
calculateEstimatedFrequencyMinutesOn(length, stopCount) ==
    IF length.kind = "finite"
    THEN calculateEstimatedFrequencyMinutes(length.value, StopsRaw(stopCount))
    ELSE FrequencyOfNonFinite(length, DwellMinutes(StopsRaw(stopCount)))

\* largest route length, in half miles, and largest stop count of these calls
MaxHalfMiles == 12
MaxStopCount == 7

RouteLengths ==
    {Finite(RMul(Rat(k, 2), METERS_PER_MILE)) : k \in (-2)..MaxHalfMiles}
    \cup {NaN, Infinity, MinusInfinity}

StopCounts == {Finite(n) : n \in (-2)..MaxStopCount} \cup {NaN, Infinity}

InitFrequency ==
    /\ AppInit
    /\ lastEvent = Event("start", NoRoute, FALSE)
    /\ everFailed = {}
    /\ \E length \in RouteLengths, stopCount \in StopCounts :
          call = [op |-> "frequency", length |-> length, stopCount |-> stopCount,
                  done |-> FALSE, out |-> Null]

EstimateFrequency ==
    /\ call.op = "frequency"
    /\ ~call.done
    /\ call' = [call EXCEPT
                  !.done = TRUE,
                  !.out = calculateEstimatedFrequencyMinutesOn(call.length, call.stopCount)]
    /\ UNCHANGED <<appVars, lastEvent, everFailed>>

SpecFrequency == InitFrequency /\ [][EstimateFrequency]_vars

\* C16: estimateFrequencyMinutes(length, stopCount) is null exactly when the
\* length is non-finite or <= 0 and stopCount is non-finite or <= 0; otherwise
\* it is strictly positive, equal to the dwell time stopCount * 0.5 * 30 / 60
\* when the length is non-finite or <= 0, and to the travel time over the
\* buses in service when stopCount is 0 and the length is positive.
C16_NullOnlyWithoutTravelAndDwell ==
    call.op = "frequency" /\ call.done
    => /\ call.out = Null
          <=> /\ call.length.kind # "finite" \/ RLe(call.length.value, Zero)
              /\ call.stopCount.kind # "finite" \/ call.stopCount.value <= 0
       /\ call.out # Null => RLt(Zero, call.out)
       /\ (/\ call.length.kind # "finite" \/ RLe(call.length.value, Zero)
           /\ call.stopCount.kind = "finite" /\ call.stopCount.value > 0)
          => call.out = Rat(call.stopCount.value, 4)
       /\ (/\ call.length.kind = "finite" /\ RLt(Zero, call.length.value)
           /\ call.stopCount.kind = "finite" /\ call.stopCount.value = 0)
          => call.out
             = RDiv(RDiv(call.length.value,
                         Rat(AVERAGE_BUS_SPEED_MPH * 160934, MINUTES_PER_HOUR * 100)),
                    Int2Rat(Max(1, Round(RDiv(call.length.value, Rat(18 * 160934, 1000))))))

\* a call without travel and dwell time that returned null
C16_Witness ==
    /\ call.op = "frequency"
    /\ call.done
    /\ call.length.kind = "NaN"
    /\ call.stopCount = Finite(-1)
    /\ call.out = Null

----------------------------------------------------------------------------
(* The paging loops of fetchMbtaRouteMetadata ("routes"),                  *)
(* fetchMbtaRouteShapes ("shapes", one loop per route id of the batch) and *)
(* fetchMbtaStopsForRoute ("stops").                                       *)

Loaders == {"routes", "shapes", "stops"}

\* const pageLimit = ...
PageLimit(loader) == IF loader = "shapes" THEN 500 ELSE 200

\* if (pageOffset > ...) throw new Error('pagination limit exceeded ...') without
\* the comparison
CeilingPassed_Never(loader, pageOffset) == FALSE

\* if (pageOffset > ...)
CeilingPassed(loader, pageOffset) ==
    IF loader = "routes" THEN pageOffset > 10000 ELSE pageOffset > 100000

\* number of route ids handed to fetchMbtaRouteShapes
MaxBatchRoutes == 2

\* what the upstream answers to one page request: response.ok, a payload with a
\* data array, a data array shorter than the page limit, payload.links.next
Responses ==
    [ok : BOOLEAN, wellFormed : BOOLEAN, short : BOOLEAN, hasNext : BOOLEAN]

NoResponse == [ok |-> TRUE, wellFormed |-> TRUE, short |-> FALSE, hasNext |-> TRUE]

Thrown(c, response, message) ==
    [c EXCEPT !.status = "failed", !.error = message, !.response = response]

\* break: the loop of this listing ends; fetchMbtaRouteShapes goes on with the
\* next route id of the batch
Break(c, response) ==
    IF c.loader = "shapes" /\ c.routeIndex < MaxBatchRoutes
    THEN [c EXCEPT !.routeIndex = @ + 1, !.pageOffset = 0, !.response = response]
    ELSE [c EXCEPT !.status = "done", !.response = response]

\* pageOffset += pageLimit; if (pageOffset > ...) throw
NextPage(c, response) ==
    IF CeilingPassed(c.loader, c.pageOffset + PageLimit(c.loader))
    THEN Thrown([c EXCEPT !.pageOffset = @ + PageLimit(c.loader)], response,
                "pagination limit exceeded")
    ELSE [c EXCEPT !.pageOffset = @ + PageLimit(c.loader), !.response = response]

\* one pass of the while (true) loop, from the response on
AfterPage(c, response) ==
    IF ~response.ok THEN Thrown(c, response, "request failed")
    ELSE IF ~response.wellFormed THEN Thrown(c, response, "unexpected response format")
    ELSE IF ~response.hasNext \/ response.short THEN Break(c, response)
    ELSE NextPage(c, response)

InitPaging ==
    /\ AppInit
    /\ lastEvent = Event("start", NoRoute, FALSE)
    /\ everFailed = {}
    /\ \E loader \in Loaders :
          call = [op |-> "paginate", loader |-> loader, routeIndex |-> 1,
                  pageOffset |-> 0, status |-> "running", error |-> NoError,
                  response |-> NoResponse]

\* the fetch of one page settles
FetchPage ==
    /\ call.op = "paginate"
    /\ call.status = "running"
    /\ \E response \in Responses : call' = AfterPage(call, response)
    /\ UNCHANGED <<appVars, lastEvent, everFailed>>

\* every page request is answered
SpecPaging == InitPaging /\ [][FetchPage]_vars /\ WF_vars(FetchPage)

\* C17: every paging loader terminates; it stops after the first page without a
\* next link or with fewer records than the page limit; a full page with a next
\* link moves the offset on by the page limit, and the loader throws
\* "pagination limit exceeded" once the offset is above 10,000 (routes) or
\* 100,000 (shapes, stops).
C17_PagingTerminates ==
    /\ <>(call.status \in {"done", "failed"})
    /\ [](call.status = "running"
          => call.pageOffset <= (IF call.loader = "routes" THEN 10000 ELSE 100000))
    /\ [][/\ (/\ call'.response.ok /\ call'.response.wellFormed
              /\ (~call'.response.hasNext \/ call'.response.short))
             => \/ call'.status = "done"
                \/ /\ call.loader = "shapes"
                   /\ call'.status = "running"
                   /\ call'.routeIndex = call.routeIndex + 1
                   /\ call'.pageOffset = 0
          /\ (/\ call'.response.ok /\ call'.response.wellFormed
              /\ call'.response.hasNext /\ ~call'.response.short)
             => /\ call'.pageOffset
                   = call.pageOffset + (IF call.loader = "shapes" THEN 500 ELSE 200)
                /\ IF call'.pageOffset > (IF call.loader = "routes" THEN 10000 ELSE 100000)
                   THEN call'.status = "failed" /\ call'.error = "pagination limit exceeded"
                   ELSE call'.status = "running"
          /\ (~call'.response.ok \/ ~call'.response.wellFormed)
             => call'.status = "failed"]_vars

\* the stops loader gave up against an upstream that always reports a full page
\* with a next link
C17_Witness ==
    /\ call.op = "paginate"
    /\ call.loader = "stops"
    /\ call.status = "failed"
    /\ call.error = "pagination limit exceeded"
    /\ call.pageOffset = 100200

----------------------------------------------------------------------------
(* fetchMbtaRoutes: the route listing and the shapes of the upstream become *)
(* the route collection.                                                   *)

\* normalizeRouteFeature with the id derived from the route number first
normalizeRouteFeature_FallbackId(feature, index) ==
    IF feature.geometry.type = "null" THEN NullObject
    ELSE [type |-> "Feature",
          id |-> IF feature.properties.route_num \notin {NoRoute, ""}
                 THEN feature.properties.route_num
                 ELSE IF feature.id \notin {NoRoute, ""} THEN feature.id
                 ELSE "route-" \o ToString(index),
          geometry |-> feature.geometry,
          properties |-> [route_id |-> feature.properties.route_num,
                          name |-> feature.properties.route_desc]]

\* routeNumber: String(properties.route_num).trim(), '' when it is missing (the
\* features of fetchMbtaRoutes carry no route_id, SHAPE_ID or FID property)
RouteNumberOf(feature) ==
    IF feature.properties.route_num = NoRoute THEN "" ELSE feature.properties.route_num

RouteNameOf(feature) ==
    IF feature.properties.route_desc = NoRoute THEN "" ELSE feature.properties.route_desc

\* fallbackIdParts.join('-') || feature.id || properties.FID || `route-${index}`
FallbackId(feature, index) ==
    IF RouteNumberOf(feature) # "" THEN RouteNumberOf(feature)
    ELSE IF feature.id \notin {NoRoute, ""} THEN feature.id
    ELSE "route-" \o ToString(index)

\* feature.id ?? properties.SHAPE_ID ?? properties.FID ?? fallbackId
FeatureId(feature, index) ==
    IF feature.id # NoRoute THEN feature.id ELSE FallbackId(feature, index)

DisplayName(feature) ==
    IF RouteNameOf(feature) # "" THEN RouteNameOf(feature)
    ELSE IF RouteNumberOf(feature) # "" THEN "Route " \o RouteNumberOf(feature)
    ELSE "MBTA Bus Route"

normalizeRouteFeature(feature, index) ==
    IF feature.geometry.type = "null" THEN NullObject
    ELSE [type |-> "Feature",
          id |-> FeatureId(feature, index),
          geometry |-> feature.geometry,
          properties |-> [route_id |-> IF RouteNumberOf(feature) # ""
                                       THEN RouteNumberOf(feature)
                                       ELSE FallbackId(feature, index),
                          name |-> DisplayName(feature)]]

\* the route ids and short names the upstream listing may hold
UpstreamRouteIds == {"1", "39", "741", "9"}
UpstreamShortNames == {"", "1", "SL1"}
UpstreamRoutes == [id : UpstreamRouteIds, shortName : UpstreamShortNames]

\* largest number of records in the upstream listing
MaxListing == 3

\* the decoded shapes the upstream holds for a route id; route 9 has one vertex
\* repeated and so no usable shape
UpstreamShapes(routeId) ==
    IF routeId = "1" THEN <<<<Pt(0), Pt(2), Pt(2), Pt(10)>>>>
    ELSE IF routeId = "39" THEN <<<<Pt(0), Pt(3)>>, <<Pt(3), Pt(0)>>, <<Pt(1), Pt(1)>>, <<Pt(1), Pt(2)>>>>
    ELSE IF routeId = "741" THEN <<<<Pt(0), Pt(5)>>>>
    ELSE <<<<Pt(4), Pt(4)>>>>

\* routeMetadata.keys(): the ids of the listing in the order of their first record
RECURSIVE MetadataKeys(_, _)
MetadataKeys(listing, seen) ==
    IF listing = <<>> THEN <<>>
    ELSE IF Head(listing).id \in seen THEN MetadataKeys(Tail(listing), seen)
    ELSE <<Head(listing).id>> \o MetadataKeys(Tail(listing), seen \cup {Head(listing).id})

\* routeMetadata.get(routeId): the last record set for the id
MetadataOf(listing, routeId) ==
    listing[CHOOSE i \in 1..Len(listing) :
               /\ listing[i].id = routeId
               /\ \A j \in (i + 1)..Len(listing) : listing[j].id # routeId]

\* a coordinate is kept when it is a pair of finite numbers
IsFiniteCoordinate(coordinate) ==
    Len(coordinate) = 2 /\ coordinate[1] # Null /\ coordinate[2] # Null

\* the loop over a segment: invalid coordinates and repeats of the coordinate
\* kept last are dropped
RECURSIVE CleanedFrom(_, _)
CleanedFrom(segment, cleaned) ==
    IF segment = <<>> THEN cleaned
    ELSE IF ~IsFiniteCoordinate(Head(segment)) THEN CleanedFrom(Tail(segment), cleaned)
    ELSE IF cleaned # <<>> /\ cleaned[Len(cleaned)] = Head(segment)
         THEN CleanedFrom(Tail(segment), cleaned)
    ELSE CleanedFrom(Tail(segment), Append(cleaned, Head(segment)))

\* CleanedSegments without .filter((segment) => segment.length >= 2)
CleanedSegments_KeepsShort(segments) ==
    [i \in 1..Len(segments) |-> CleanedFrom(segments[i], <<>>)]

CleanedSegments(segments) ==
    SelectSeq([i \in 1..Len(segments) |-> CleanedFrom(segments[i], <<>>)],
              LAMBDA segment : Len(segment) >= 2)

RouteGeometry(cleanedSegments) ==
    IF Len(cleanedSegments) = 1
    THEN [type |-> "LineString", coordinates |-> cleanedSegments[1]]
    ELSE [type |-> "MultiLineString", coordinates |-> cleanedSegments]

\* metadata.longName || metadata.description || `Route ${...}` for upstream
\* records without long name and description
RouteNameFor(routeNumber, routeId) ==
    IF routeNumber # "" /\ routeNumber # routeId THEN "Route " \o routeNumber
    ELSE "Route " \o routeId

\* the feature handed to normalizeRouteFeature for one entry of shapesByRoute
RawRouteFeature(listing, routeId, cleanedSegments) ==
    [type |-> "Feature", id |-> routeId, geometry |-> RouteGeometry(cleanedSegments),
     properties |->
         [route_num |-> IF MetadataOf(listing, routeId).shortName # ""
                        THEN MetadataOf(listing, routeId).shortName ELSE routeId,
          route_desc |-> RouteNameFor(IF MetadataOf(listing, routeId).shortName # ""
                                      THEN MetadataOf(listing, routeId).shortName
                                      ELSE routeId,
                                      routeId)]]

\* the loop over shapesByRoute.entries()
RECURSIVE RouteFeaturesFrom(_, _, _)
RouteFeaturesFrom(listing, routeIds, features) ==
    IF routeIds = <<>> THEN features
    ELSE IF CleanedSegments(UpstreamShapes(Head(routeIds))) = <<>>
         THEN RouteFeaturesFrom(listing, Tail(routeIds), features)
    ELSE RouteFeaturesFrom(
             listing, Tail(routeIds),
             Append(features,
                    normalizeRouteFeature(
                        RawRouteFeature(listing, Head(routeIds),
                                        CleanedSegments(UpstreamShapes(Head(routeIds)))),
                        Len(features))))

\* fetchMbtaRoutes; NullObject when it throws
fetchMbtaRoutes(listing) ==
    IF MetadataKeys(listing, {}) = <<>> THEN NullObject
    ELSE IF RouteFeaturesFrom(listing, MetadataKeys(listing, {}), <<>>) = <<>>
         THEN NullObject
    ELSE FeatureCollection(RouteFeaturesFrom(listing, MetadataKeys(listing, {}), <<>>))

RECURSIVE Listings(_)
Listings(n) ==
    IF n = 0 THEN {<<>>}
    ELSE Listings(n - 1)
         \cup {Append(l, r) : l \in {x \in Listings(n - 1) : Len(x) = n - 1},
                              r \in UpstreamRoutes}

InitRoutes ==
    /\ AppInit
    /\ lastEvent = Event("start", NoRoute, FALSE)
    /\ everFailed = {}
    /\ \E listing \in Listings(MaxListing) :
          call = [op |-> "routes", listing |-> listing, done |-> FALSE,
                  out |-> NullObject]

LoadRoutes ==
    /\ call.op = "routes"
    /\ ~call.done
    /\ call' = [call EXCEPT !.done = TRUE, !.out = fetchMbtaRoutes(call.listing)]
    /\ UNCHANGED <<appVars, lastEvent, everFailed>>

SpecRoutes == InitRoutes /\ [][LoadRoutes]_vars

\* C18: the features of a loaded route collection have pairwise distinct ids;
\* in particular two features with the same derived route number (route_id
\* property) and different geometries have distinct ids.
C18_RouteIdsDistinct ==
    (call.op = "routes" /\ call.done /\ call.out.type = "FeatureCollection")
    => \A i, j \in 1..Len(call.out.features) :
          i # j => call.out.features[i].id # call.out.features[j].id

\* two routes with the same route number and different geometries were loaded
C18_Witness ==
    /\ call.op = "routes"
    /\ call.done
    /\ call.out.type = "FeatureCollection"
    /\ \E i, j \in 1..Len(call.out.features) :
          /\ i # j
          /\ call.out.features[i].properties.route_id
             = call.out.features[j].properties.route_id
          /\ call.out.features[i].geometry # call.out.features[j].geometry
          /\ call.out.features[i].id # call.out.features[j].id

----------------------------------------------------------------------------
(* The user events with the shift-click on the map among them.             *)

\* largest number of waypoints appended to one route
MaxWaypoints == 1

\* event.lngLat of a shift-click
ClickedPoints == {Pt(12)}

\* the line a waypoint is appended to: the LineString, or the last line of a
\* MultiLineString
LastLine(geometry) ==
    IF geometry.type = "LineString" THEN geometry.coordinates
    ELSE geometry.coordinates[Len(geometry.coordinates)]

\* the feature of the selected route with [lng, lat] appended
AppendWaypoint(feature, point) ==
    IF feature.geometry.type = "LineString"
    THEN [feature EXCEPT !.geometry.coordinates = Append(@, point)]
    ELSE IF feature.geometry.type = "MultiLineString"
    THEN [feature EXCEPT !.geometry.coordinates =
              [index \in 1..Len(@) |->
                  IF index = Max(1, Len(@)) THEN Append(@[index], point) ELSE @[index]]]
    ELSE feature

\* the map click handler with event.originalEvent.shiftKey
ShiftClickHandler(s, point) ==
    IF s.selectedRouteIdRef = NoRoute THEN s
    ELSE [s EXCEPT !.routesData.features =
              [i \in 1..Len(@) |->
                  IF @[i].id # s.selectedRouteIdRef THEN @[i]
                  ELSE AppendWaypoint(@[i], point)]]

\* a click on the map with the shift key held
ShiftClickMap(point) ==
    /\ ~isFetchingData
    /\ \A i \in 1..Len(routesData.features) :
          routesData.features[i].id = selectedRouteIdRef
          => Len(LastLine(routesData.features[i].geometry))
             < Len(LastLine(LoadedRoutes.features[i].geometry)) + MaxWaypoints
    /\ Becomes(RunEffects(ShiftClickHandler(Now, point), selectedRouteId))
    /\ Logged(Event("shiftClickMap", selectedRouteIdRef, FALSE))

NextShift ==
    \/ RoutesLoaded
    \/ \E i \in 1..Len(routesData.features) : ClickRoute(routesData.features[i])
    \/ \E point \in ClickedPoints : ShiftClickMap(point)
    \/ ClickEmptyMap
    \/ ClosePopup
    \/ IncreaseStops
    \/ DecreaseStops
    \/ \E f \in BagToSet(fetches), collection \in UpstreamCollections :
          StopsFetchResolves(f, collection)

SpecShift == Init /\ [][NextShift]_vars

UserEvents ==
    {"clickRoute", "clickEmptyMap", "shiftClickMap", "closePopup", "increaseStops",
     "decreaseStops"}

\* C19: once the route collection is loaded, no user event (route click, map
\* click with or without shift, stop adjustment, popup close) changes the
\* geometry of a route feature.
C19_GeometryImmutable ==
    [][(~isFetchingData /\ lastEvent'.kind \in UserEvents)
       => /\ Len(routesData'.features) = Len(routesData.features)
          /\ \A i \in 1..Len(routesData.features) :
                routesData'.features[i].geometry = routesData.features[i].geometry]_vars

----------------------------------------------------------------------------
(* Reductions: buildAdjustedStopCollection with a target of at most the     *)
(* number of base stops.                                                   *)

\* largest number of base stops of a reduction
MaxBaseStops == 9

\* base collections of 1..MaxBaseStops stops, one per mile
BaseCollections ==
    {FeatureCollection([k \in 1..n |-> Stop(k, k - 1)]) : n \in 1..MaxBaseStops}

InitReduce ==
    /\ AppInit
    /\ lastEvent = Event("start", NoRoute, FALSE)
    /\ everFailed = {}
    /\ \E base \in BaseCollections, geometry \in Geometries :
          \E targetCount \in 1..Len(base.features) :
             call = [op |-> "reduce", base |-> base, geometry |-> geometry,
                     targetCount |-> targetCount, done |-> FALSE, out |-> EMPTY_GEOJSON]

Reduce ==
    /\ call.op = "reduce"
    /\ ~call.done
    /\ call' = [call EXCEPT
                  !.done = TRUE,
                  !.out = buildAdjustedStopCollection(call.base, call.geometry,
                                                      call.targetCount)]
    /\ UNCHANGED <<appVars, lastEvent, everFailed>>

SpecReduce == InitReduce /\ [][Reduce]_vars

\* the position of a returned stop among the base stops, 0 when it is none
SourceIndex(base, stop) ==
    IF \E i \in 1..Len(base.features) : base.features[i] = stop
    THEN CHOOSE i \in 1..Len(base.features) : base.features[i] = stop
    ELSE 0

\* C20: for 2 <= targetCount <= baseCount a reduction returns targetCount base
\* stops with strictly increasing source indices, the first being the first
\* base stop and the last being the last base stop; for targetCount = 1 it
\* returns the first base stop only.
C20_SubsamplingKeepsOrder ==
    (call.op = "reduce" /\ call.done)
    => /\ Len(call.out.features) = call.targetCount
       /\ \A k \in 1..Len(call.out.features) :
             SourceIndex(call.base, call.out.features[k]) >= 1
       /\ \A k \in 1..(Len(call.out.features) - 1) :
             SourceIndex(call.base, call.out.features[k])
             < SourceIndex(call.base, call.out.features[k + 1])
       /\ call.targetCount >= 2
          => /\ call.out.features[1] = call.base.features[1]
             /\ call.out.features[call.targetCount]
                = call.base.features[Len(call.base.features)]
       /\ call.targetCount = 1 => call.out.features = <<call.base.features[1]>>

\* a reduction to an interval that is no whole number was made: 6 stops to 4
C20_Witness ==
    /\ call.op = "reduce"
    /\ call.done
    /\ Len(call.base.features) = 6
    /\ call.targetCount = 4
    /\ [k \in 1..4 |-> SourceIndex(call.base, call.out.features[k])] = <<1, 3, 4, 6>>

----------------------------------------------------------------------------
(* Increases: buildAdjustedStopCollection with at least two base stops and  *)
(* a target above their number.                                            *)

\* largest number of base stops of an increase
MaxIncreaseStops == 4

\* largest number of synthetic stops of an increase
MaxAdditional == 3

\* the latitudes of the base stops, in miles
StopLatitudes == {0, 1, 3}

RECURSIVE LatitudeLists(_)
LatitudeLists(n) ==
    IF n = 0 THEN {<<>>}
    ELSE LatitudeLists(n - 1)
         \cup {Append(l, lat) : l \in {x \in LatitudeLists(n - 1) : Len(x) = n - 1},
                                lat \in StopLatitudes}

\* base collections of 2..MaxIncreaseStops stops, coincident ones among them
IncreaseCollections ==
    {FeatureCollection([k \in 1..Len(l) |-> Stop(k, l[k])]) :
        l \in {x \in LatitudeLists(MaxIncreaseStops) : Len(x) >= 2}}

InitIncrease ==
    /\ AppInit
    /\ lastEvent = Event("start", NoRoute, FALSE)
    /\ everFailed = {}
    /\ \E base \in IncreaseCollections, additionalNeeded \in 1..MaxAdditional :
          call = [op |-> "increase", base |-> base,
                  geometry |-> LoadedRoutes.features[1].geometry,
                  targetCount |-> Len(base.features) + additionalNeeded,
                  done |-> FALSE, out |-> EMPTY_GEOJSON]

Increase ==
    /\ call.op = "increase"
    /\ ~call.done
    /\ call' = [call EXCEPT
                  !.done = TRUE,
                  !.out = buildAdjustedStopCollection(call.base, call.geometry,
                                                      call.targetCount)]
    /\ UNCHANGED <<appVars, lastEvent, everFailed>>

SpecIncrease == InitIncrease /\ [][Increase]_vars

\* the number of synthetic stops the result holds between base stops i and i + 1
GapAllocation(i) ==
    SourceIndex(call.out, call.base.features[i + 1])
    - SourceIndex(call.out, call.base.features[i]) - 1

GapsTotalLength == TotalLength(StopSegments(call.base.features))

\* (segment.length / totalLength) * additionalNeeded of gap i
ExactShare(i) ==
    RMul(RDiv(StopSegments(call.base.features)[i].length, GapsTotalLength),
         Int2Rat(call.targetCount - Len(call.base.features)))

ShareRemainder(i) == RSub(ExactShare(i), Int2Rat(Floor(ExactShare(i))))

\* the result is the base stops in their order, the first of them first and the
\* last of them last, with targetCount - baseCount synthetic stops in the gaps
BaseStopsInterleaved ==
    /\ Len(call.out.features) = call.targetCount
    /\ SourceIndex(call.out, call.base.features[1]) = 1
    /\ SourceIndex(call.out, call.base.features[Len(call.base.features)])
       = Len(call.out.features)
    /\ \A i \in 1..(Len(call.base.features) - 1) : GapAllocation(i) >= 0
    /\ Sum([i \in 1..(Len(call.base.features) - 1) |-> GapAllocation(i)])
       = call.targetCount - Len(call.base.features)
    /\ \A p \in 1..Len(call.out.features) :
          call.out.features[p].properties.isSynthetic
          <=> \A i \in 1..Len(call.base.features) :
                 call.base.features[i] # call.out.features[p]

\* each gap holds the floor of its share or one more, the gaps with one more
\* having remainders at least as large as those without
LargestRemainders ==
    /\ \A i \in 1..(Len(call.base.features) - 1) :
          GapAllocation(i) \in {Floor(ExactShare(i)), Floor(ExactShare(i)) + 1}
    /\ \A i, j \in 1..(Len(call.base.features) - 1) :
          (GapAllocation(i) = Floor(ExactShare(i)) + 1
           /\ GapAllocation(j) = Floor(ExactShare(j)))
          => RLe(ShareRemainder(j), ShareRemainder(i))

\* the synthetic stops of a gap lie strictly between its two base stops
StrictlyInsideGaps ==
    \A i \in 1..(Len(call.base.features) - 1) :
       \A p \in (SourceIndex(call.out, call.base.features[i]) + 1)
                ..(SourceIndex(call.out, call.base.features[i + 1]) - 1) :
          \/ /\ RLt(call.base.features[i].geometry.coordinates[2],
                    call.out.features[p].geometry.coordinates[2])
             /\ RLt(call.out.features[p].geometry.coordinates[2],
                    call.base.features[i + 1].geometry.coordinates[2])
          \/ /\ RLt(call.base.features[i + 1].geometry.coordinates[2],
                    call.out.features[p].geometry.coordinates[2])
             /\ RLt(call.out.features[p].geometry.coordinates[2],
                    call.base.features[i].geometry.coordinates[2])

\* C21 as stated: for every increase with baseCount >= 2 the synthetic stops are
\* allocated to the gaps by largest-remainder rounding of the length-proportional
\* shares, and the result is the base stops in order with each gap's synthetic
\* stops strictly between its two base stops.
C21_LargestRemainderAllocation ==
    (call.op = "increase" /\ call.done)
    => /\ BaseStopsInterleaved
       /\ RLt(Zero, GapsTotalLength)
       /\ LargestRemainders
       /\ StrictlyInsideGaps

\* C21: an increase with baseCount >= 2 returns the base stops in order, first
\* and last in place, with targetCount - baseCount synthetic stops in the gaps;
\* when the gaps have a positive total length each gap holds the floor of its
\* length-proportional share or one more, the extra units going to the largest
\* remainders, and the synthetic stops lie strictly between the gap's base stops;
\* when all base stops coincide the units are dealt round-robin from the first
\* gap on.
C21_AllocationOverGaps ==
    (call.op = "increase" /\ call.done)
    => /\ BaseStopsInterleaved
       /\ RLt(Zero, GapsTotalLength) => (LargestRemainders /\ StrictlyInsideGaps)
       /\ GapsTotalLength = Zero
          => \A i, j \in 1..(Len(call.base.features) - 1) :
                i < j => GapAllocation(i) - GapAllocation(j) \in {0, 1}

\* stops 0, 1, 3, 3 miles and three synthetic stops: shares 1 and 2 and 0
C21_Witness ==
    /\ call.op = "increase"
    /\ call.done
    /\ Len(call.base.features) = 4
    /\ call.targetCount = 7
    /\ RLt(Zero, GapsTotalLength)
    /\ [i \in 1..3 |-> GapAllocation(i)] = <<1, 2, 0>>

----------------------------------------------------------------------------
(* Further properties of the coordinator.                                  *)

\* the base stops of the selected route have just become available: a click on
\* a route with a cache entry, or the result of the selected route's fetch
BaseStopsAvailable ==
    \/ lastEvent.kind = "clickRoute" /\ lastEvent.flag
    \/ lastEvent.kind = "stopsResolved" /\ ~lastEvent.flag
       /\ selectedRouteIdRef = lastEvent.route

\* the representative length of the loaded route with the id
LoadedRouteLength(routeId) ==
    calculateRepresentativeRouteLengthInMeters(
        routesData.features[CHOOSE i \in 1..Len(routesData.features) :
                               routesData.features[i].id = routeId].geometry)

----------------------------------------------------------------------------
(* The geometries of the route load.                                       *)

\* the lines of a route geometry
RouteLines(geometry) ==
    IF geometry.type = "LineString" THEN <<geometry.coordinates>>
    ELSE geometry.coordinates

\* an upstream shape with two different coordinates
IsUsableShape(shape) ==
    \E i, j \in 1..Len(shape) :
       IsFiniteCoordinate(shape[i]) /\ IsFiniteCoordinate(shape[j]) /\ shape[i] # shape[j]

ListedRouteIds(listing) == {listing[i].id : i \in 1..Len(listing)}

\* C23: every feature of the route load has lines of at least 2 points, finite
\* coordinates and no two equal consecutive points; the features are those of
\* the listed routes that have a shape of at least 2 points after cleaning.
C23_RouteGeometryClean ==
    (call.op = "routes" /\ call.done)
    => /\ call.out.type = "FeatureCollection"
          => \A f \in 1..Len(call.out.features) :
                /\ RouteLines(call.out.features[f].geometry) # <<>>
                /\ \A l \in 1..Len(RouteLines(call.out.features[f].geometry)) :
                      /\ Len(RouteLines(call.out.features[f].geometry)[l]) >= 2
                      /\ \A p \in 1..Len(RouteLines(call.out.features[f].geometry)[l]) :
                            IsFiniteCoordinate(RouteLines(call.out.features[f].geometry)[l][p])
                      /\ \A p \in 1..(Len(RouteLines(call.out.features[f].geometry)[l]) - 1) :
                            RouteLines(call.out.features[f].geometry)[l][p]
                            # RouteLines(call.out.features[f].geometry)[l][p + 1]
       /\ \A routeId \in ListedRouteIds(call.listing) :
             (\E s \in 1..Len(UpstreamShapes(routeId)) :
                 IsUsableShape(UpstreamShapes(routeId)[s]))
             <=> /\ call.out.type = "FeatureCollection"
                 /\ \E f \in 1..Len(call.out.features) : call.out.features[f].id = routeId

\* routes 1, 39 and 9 were listed: route 1 lost its repeated point, route 39 one
\* of its four shapes, and route 9 is omitted
C23_Witness ==
    /\ call.op = "routes"
    /\ call.done
    /\ ListedRouteIds(call.listing) = {"1", "39", "9"}
    /\ call.out.type = "FeatureCollection"
    /\ {call.out.features[f].id : f \in 1..Len(call.out.features)} = {"1", "39"}
    /\ \E f \in 1..Len(call.out.features) :
          /\ call.out.features[f].id = "39"
          /\ Len(RouteLines(call.out.features[f].geometry)) = 3
    /\ \E f \in 1..Len(call.out.features) :
          /\ call.out.features[f].id = "1"
          /\ Len(RouteLines(call.out.features[f].geometry)[1]) = 3

----------------------------------------------------------------------------
(* decodePolyline. A string is the sequence of its character codes.         *)

\* ReadChunks that takes the end of the string for the end of the value
RECURSIVE ReadChunks_IgnoresEnd(_, _, _, _)
ReadChunks_IgnoresEnd(encoded, index, result, shift) ==
    IF index > Len(encoded)
    THEN [complete |-> TRUE, result |-> result, index |-> index]
    ELSE IF encoded[index] - 63 >= 32
    THEN ReadChunks_IgnoresEnd(encoded, index + 1,
                               result + ((encoded[index] - 63) % 32) * 2^shift, shift + 5)
    ELSE [complete |-> TRUE, result |-> result + ((encoded[index] - 63) % 32) * 2^shift,
          index |-> index + 1]

\* one do-while loop: result |= (byte & 0x1f) << shift while byte >= 0x20, from
\* the character at index (counted from 1) on; complete is FALSE when the string
\* ends inside the value. The chunks of a value of up to 6 characters occupy
\* disjoint bits below 2^31, so that |= is an addition.
RECURSIVE ReadChunks(_, _, _, _)
ReadChunks(encoded, index, result, shift) ==
    IF index > Len(encoded)
    THEN [complete |-> FALSE, result |-> result, index |-> index]
    ELSE IF encoded[index] - 63 >= 32
    THEN ReadChunks(encoded, index + 1,
                    result + ((encoded[index] - 63) % 32) * 2^shift, shift + 5)
    ELSE [complete |-> TRUE, result |-> result + ((encoded[index] - 63) % 32) * 2^shift,
          index |-> index + 1]

\* (result & 1) !== 0 ? ~(result >> 1) : result >> 1
SignedDelta(result) ==
    IF result % 2 # 0 THEN -(result \div 2) - 1 ELSE result \div 2

\* the while loop from index on
RECURSIVE DecodeFrom(_, _, _, _, _)
DecodeFrom(encoded, index, latitude, longitude, coordinates) ==
    IF index > Len(encoded) THEN coordinates
    ELSE IF ~ReadChunks(encoded, index, 0, 0).complete THEN coordinates
    ELSE IF ~ReadChunks(encoded, ReadChunks(encoded, index, 0, 0).index, 0, 0).complete
    THEN coordinates
    ELSE DecodeFrom(
             encoded,
             ReadChunks(encoded, ReadChunks(encoded, index, 0, 0).index, 0, 0).index,
             latitude + SignedDelta(ReadChunks(encoded, index, 0, 0).result),
             longitude
             + SignedDelta(ReadChunks(encoded, ReadChunks(encoded, index, 0, 0).index,
                                      0, 0).result),
             Append(coordinates,
                    <<Rat(longitude
                          + SignedDelta(ReadChunks(encoded,
                                                   ReadChunks(encoded, index, 0, 0).index,
                                                   0, 0).result),
                          100000),
                      Rat(latitude + SignedDelta(ReadChunks(encoded, index, 0, 0).result),
                          100000)>>))

decodePolyline(encoded) ==
    IF Len(encoded) = 0 THEN <<>> ELSE DecodeFrom(encoded, 1, 0, 0, <<>>)

\* the characters of the encoded strings: ">" (below the alphabet of the
\* encoding), "?" and "@" (last chunks 0 and 1), "_" and "`" (chunks 0 and 1 of
\* a value that continues)
EncodedCharacters == {62, 63, 64, 95, 96}

\* largest length of an encoded string
MaxEncoded == 4

RECURSIVE EncodedStrings(_)
EncodedStrings(n) ==
    IF n = 0 THEN {<<>>}
    ELSE EncodedStrings(n - 1)
         \cup {Append(e, c) : e \in {x \in EncodedStrings(n - 1) : Len(x) = n - 1},
                              c \in EncodedCharacters}

\* a string and the length of one of its truncations
InitDecode ==
    /\ AppInit
    /\ lastEvent = Event("start", NoRoute, FALSE)
    /\ everFailed = {}
    /\ \E encoded \in EncodedStrings(MaxEncoded) :
          \E cut \in 0..Len(encoded) :
             call = [op |-> "decode", encoded |-> encoded, cut |-> cut, done |-> FALSE,
                     out |-> <<>>, outCut |-> <<>>]

Decode ==
    /\ call.op = "decode"
    /\ ~call.done
    /\ call' = [call EXCEPT
                  !.done = TRUE,
                  !.out = decodePolyline(call.encoded),
                  !.outCut = decodePolyline(SubSeq(call.encoded, 1, call.cut))]
    /\ UNCHANGED <<appVars, lastEvent, everFailed>>

SpecDecode == InitDecode /\ [][Decode]_vars

\* C24: decodePolyline returns for every string; the empty string gives the
\* empty sequence, and the decoding of a truncation of a string is a prefix of
\* the decoding of the string.
C24_TruncationDecodesPrefix ==
    (call.op = "decode" /\ call.done)
    => /\ call.encoded = <<>> => call.out = <<>>
       /\ Len(call.outCut) <= Len(call.out)
       /\ call.outCut = SubSeq(call.out, 1, Len(call.outCut))
       /\ 2 * Len(call.out) <= Len(call.encoded)

\* "@`@@" cut inside its second value: one coordinate, none for the cut
C24_Witness ==
    /\ call.op = "decode"
    /\ call.done
    /\ call.encoded = <<64, 96, 64, 64>>
    /\ call.cut = 2
    /\ Len(call.out) = 1
    /\ call.outCut = <<>>

----------------------------------------------------------------------------
(* The backend's fetchLayerFeatures: the paging loop over fetchLayerPage.    *)

DEFAULT_PAGE_SIZE == 1000

\* the offsets of the loop are counted modulo MaxLayerOffset + 1
MaxLayerOffset == 2000

\* what fetchLayerPage may give: a response that is not ok (it throws), or a
\* payload of no, one or pageSize features, exceededTransferLimit set or not
LayerPayloads ==
    [ok : BOOLEAN, length : {0, 1, DEFAULT_PAGE_SIZE}, exceeded : BOOLEAN]

\* one pass of the while (true) loop, from the payload on
AfterLayerPage(c, payload) ==
    IF ~payload.ok THEN [c EXCEPT !.status = "failed", !.payload = payload]
    ELSE IF (~payload.exceeded /\ payload.length # DEFAULT_PAGE_SIZE) \/ payload.length = 0
    THEN [c EXCEPT !.status = "done", !.payload = payload]
    ELSE [c EXCEPT !.offset = (@ + payload.length) % (MaxLayerOffset + 1),
                   !.payload = payload]

InitLayer ==
    /\ AppInit
    /\ lastEvent = Event("start", NoRoute, FALSE)
    /\ everFailed = {}
    /\ call = [op |-> "layer", offset |-> 0, status |-> "running",
               payload |-> [ok |-> TRUE, length |-> DEFAULT_PAGE_SIZE, exceeded |-> FALSE]]

\* the fetch of one page settles
FetchLayerPage ==
    /\ call.op = "layer"
    /\ call.status = "running"
    /\ \E payload \in LayerPayloads : call' = AfterLayerPage(call, payload)
    /\ UNCHANGED <<appVars, lastEvent, everFailed>>

\* every page request is answered
SpecLayer == InitLayer /\ [][FetchLayerPage]_vars /\ WF_vars(FetchLayerPage)

\* C25: the paging loop of fetchLayerFeatures ends, with a result or an error,
\* whatever the upstream answers; it ends at the first empty page and at the
\* first short page that is not flagged as exceeding the transfer limit.
C25_LayerPagingTerminates ==
    /\ <>(call.status \in {"done", "failed"})
    /\ [][(/\ call'.payload.ok
           /\ \/ call'.payload.length = 0
              \/ ~call'.payload.exceeded /\ call'.payload.length < DEFAULT_PAGE_SIZE)
          => call'.status = "done"]_vars

----------------------------------------------------------------------------
(* Further properties of the coordinator: cache, counts, loading flag.      *)

\* C26: every stop fetch that completes successfully leaves its route with a
\* cache entry, also when the route is no longer the selected one, and a result
\* for a route that is not selected is not applied.
C26_CompletedFetchCached ==
    [][lastEvent'.kind = "stopsResolved"
       => /\ stopCacheRef'[lastEvent'.route].type # "null"
          /\ lastEvent'.route # selectedRouteIdRef
             => UNCHANGED <<baseStopCollectionRef, stopDisplayCollection,
                            stopScenarioRef>>]_vars

\* C27: in every reachable state the displayed stop collection has adjustedCount
\* features: none when idle, loading or failed, the base stops when Ready, the
\* target count after an adjustment.
C27_DisplayedCountIsAdjustedCount ==
    /\ Len(stopDisplayCollection.features) = stopScenarioRef.adjustedCount
    /\ (selectedRouteIdRef = NoRoute \/ Loading(selectedRouteIdRef)
        \/ Failed(selectedRouteIdRef))
       => stopScenarioRef.adjustedCount = 0
    /\ BaseStopsAvailable
       => stopScenarioRef.adjustedCount = Len(baseStopCollectionRef.features)
    /\ lastEvent.kind \in {"increaseStops", "decreaseStops"}
       => stopScenarioRef.adjustedCount \in 1..MAX_ADJUSTED_STOPS

\* three base stops were increased to four displayed stops
C27_Witness ==
    /\ lastEvent.kind = "increaseStops"
    /\ stopScenarioRef.baseCount = 3
    /\ stopScenarioRef.adjustedCount = 4
    /\ Len(stopDisplayCollection.features) = 4

\* C28: a click on "+25% stops" never leaves adjustedCount smaller than it was,
\* and a click on "-25% stops" never leaves it larger than it was.
C28_AdjustmentDirection ==
    [][/\ lastEvent'.kind = "increaseStops"
          => stopScenarioRef'.adjustedCount >= stopScenarioRef.adjustedCount
       /\ lastEvent'.kind = "decreaseStops"
          => stopScenarioRef'.adjustedCount <= stopScenarioRef.adjustedCount]_vars

\* C29: the stop loading flag is set exactly while the selected route has an
\* outstanding stop fetch that is not cancelled; it is clear when no route is
\* selected and when the selected route is Ready or Failed.
C29_LoadingFlagMeansOutstandingFetch ==
    /\ isFetchingStops
       <=> /\ selectedRouteIdRef # NoRoute
           /\ Fetch(selectedRouteIdRef, FALSE) \in BagToSet(fetches)
    /\ selectedRouteIdRef = NoRoute => ~isFetchingStops
    /\ \A r \in RouteIds : (Ready(r) \/ Failed(r)) => ~isFetchingStops

\* the fetch of the selected route has completed while a cancelled fetch of
\* another route is still outstanding
C29_Witness ==
    /\ lastEvent.kind \in {"stopsResolved", "stopsRejected"}
    /\ ~lastEvent.flag
    /\ selectedRouteIdRef = lastEvent.route
    /\ ~isFetchingStops
    /\ fetches # EmptyBag

----------------------------------------------------------------------------
(* The coordinator with adjustStopsByPercentage also called while no route  *)
(* is selected.                                                            *)

\* handleIncreaseStops or handleDecreaseStops runs while no route is selected
AdjustWithoutSelection(change) ==
    /\ selectedRouteFeatureRef.type = "null"
    /\ Becomes(adjustStopsByPercentage(Now, change))
    /\ Logged(Event("adjustWithoutSelection", NoRoute, RLt(Zero, change)))

NextIdle ==
    \/ RoutesLoaded
    \/ \E i \in 1..Len(routesData.features) : ClickRoute(routesData.features[i])
    \/ ClickEmptyMap
    \/ ClosePopup
    \/ IncreaseStops
    \/ DecreaseStops
    \/ \E change \in {Rat(1, 4), Rat(-1, 4)} : AdjustWithoutSelection(change)
    \/ \E f \in BagToSet(fetches), collection \in UpstreamCollections :
          StopsFetchResolves(f, collection)

SpecIdle == Init /\ [][NextIdle]_vars

\* C30: a stop-count adjustment leaves the selected route, the base stop
\* collection, the cache, baseCount and baseFrequencyMinutes as they were (it
\* changes the displayed collection and adjustedCount, factor and
\* adjustedFrequencyMinutes only), and it changes nothing when no route is
\* selected.
C30_AdjustmentFrame ==
    [][lastEvent'.kind \in {"increaseStops", "decreaseStops", "adjustWithoutSelection"}
       => /\ UNCHANGED <<routesData, isFetchingData, dataError, selectedRouteId,
                         selectedRouteIdRef, selectedRouteFeatureRef,
                         selectedRouteLengthRef, stopCacheRef, baseStopCollectionRef,
                         isFetchingStops, stopDataError, fetches>>
          /\ stopScenarioRef'.baseCount = stopScenarioRef.baseCount
          /\ stopScenarioRef'.baseFrequencyMinutes = stopScenarioRef.baseFrequencyMinutes
          /\ lastEvent'.kind = "adjustWithoutSelection"
             => UNCHANGED <<stopDisplayCollection, stopScenarioRef>>]_vars

\* three cached base stops are displayed as four, base and cache as they were
C30_Witness ==
    /\ lastEvent.kind = "increaseStops"
    /\ selectedRouteIdRef # NoRoute
    /\ Len(baseStopCollectionRef.features) = 3
    /\ stopCacheRef[selectedRouteIdRef] = baseStopCollectionRef
    /\ Len(stopDisplayCollection.features) = 4
    /\ stopScenarioRef.baseCount = 3

====
